---- MODULE Spec2Model ----
(***************************************************************************)
(* Interaction and moderation engine of the LearnLoop backend: the vote    *)
(* ledger (addVote / removeVote), the report aggregator (reportContent,    *)
(* unhideContent, dismissReports) and the soft delete of posts, over one   *)
(* PostgreSQL store reached through Prisma.                                *)
(*                                                                         *)
(* Every handler is an async function: each `await` of a storage call is   *)
(* one step, so concurrent requests interleave at the awaits.  A           *)
(* prisma.$transaction runs at PostgreSQL's default isolation (READ        *)
(* COMMITTED, no isolationLevel is passed): its writes stay private to the *)
(* request until the commit, a statement reads the rows committed when it  *)
(* runs plus the transaction's own writes, an insert whose unique key is   *)
(* held by another open transaction waits for it, and so does an update of *)
(* a row another open transaction has written.                             *)
(***************************************************************************)
EXTENDS Integers, FiniteSets, Sequences, TLC

\* ---------------------------------------------------------------- bounds
NumVoters == 2       \* callers of the ledger and of deletePost: users 1..NumVoters
NumUsers == 7        \* callers of the aggregator: users 1..NumUsers
MaxVoteId == 3       \* values the votes.id sequence hands out
MaxReportId == 7     \* values the reports.id sequence hands out
MaxNewReports == 2   \* of them, those left when concurrent reporting starts
Cap == 2             \* max of every limiter (the code's are 10 to 100), scaled
WindowSeconds == 2   \* windowMs of every limiter (15 min, 1 h), in seconds, scaled
TicksPerSecond == 2  \* readings of the clock in one second
MaxOver == 2         \* hits a store counts above Cap (the code's counters are unbounded)
MaxPostId == 1       \* values the posts.id sequence hands out

\* ------------------------------------------------------ program constants
Null == 0
REPORT_THRESHOLD == 5

\* two requests are in flight at once
Slots == {1, 2}
UserIds == 1..NumUsers
\* the (postId, commentId) a request can name: a stored post, a stored
\* comment, a post or a comment that does not exist, neither, both
TargetInputs == {<<1, Null>>, <<Null, 1>>, <<2, Null>>, <<Null, 2>>, <<Null, Null>>, <<1, 1>>}
ValidReasons == {"SPAM", "INAPPROPRIATE", "HARASSMENT", "MISINFORMATION", "OFF_TOPIC", "OTHER"}
\* the (postId, commentId, reason) a report can carry: each target with a
\* valid reason, and a stored and a missing target with an invalid one
ReportInputs ==
  {<<tg[1], tg[2], "SPAM">> : tg \in TargetInputs}
    \cup {<<1, Null, "NOT_A_REASON">>, <<Null, 1, "NOT_A_REASON">>, <<2, Null, "NOT_A_REASON">>}
\* callers of the admin routes: a user who is no administrator, and the
\* administrator
AdminRouteCallers == {1, 3}

\* users.isAdmin: user 3 is the administrator
IsAdmin(u) == u = 3

VARIABLES
  posts,          \* posts table: id -> [authorId, deletedAt, isHidden, rev (of title and content)]
  comments,       \* comments table: id -> [authorId, isHidden]
  learningScore,  \* users.learningScore
  votes,          \* committed rows of the votes table
  reports,        \* committed rows of the reports table
  nextVoteId,     \* votes.id sequence
  nextReportId,   \* reports.id sequence
  req,            \* the request each slot is serving
  totalHits,      \* limiter stores: limiter -> key -> hits counted in the window
  resetIn,        \* limiter stores: clock ticks until the key's resetTime (0: passed)
  gate,           \* the request each slot's limiter middleware is serving
  calls,          \* per class and key: wrapped operations that succeeded in the window
  savedPosts      \* rows of the saved_posts table: <<userId, postId>>

vars == <<posts, comments, learningScore, votes, reports, nextVoteId, nextReportId, req,
          totalHits, resetIn, gate, calls, savedPosts>>
store == <<posts, comments, learningScore, votes, reports, nextVoteId, nextReportId, req,
           savedPosts>>
governor == <<totalHits, resetIn, gate, calls>>

\* ------------------------------------------------------------- requests
\* A slot holds the request it serves: who asked what, where the handler
\* stands (pc), what it has read (author) and the writes of its open
\* transaction (ins, del, delta, flag).  Once answered, the slot shows the
\* outcome until the next request arrives.  The other fields record how the
\* request ran: solo, without any other request in flight; rivals, in a
\* race with the named slots on one unique key; fault, cut by a lost
\* connection; own, naming a stored item its caller wrote; n, the number of
\* rows its deleteMany removed.  A read request answers with the rows it
\* returns (seen); role is the standing of the caller of an admin route.
IdleReq ==
  [kind |-> "none", pc |-> "idle", caller |-> Null, postId |-> Null, commentId |-> Null,
   arg |-> Null, reason |-> "", result |-> "", author |-> Null,
   ins |-> {}, del |-> {}, delta |-> 0, flag |-> "none",
   fault |-> FALSE, rivals |-> {}, solo |-> FALSE, own |-> "", n |-> 0,
   seen |-> {}, role |-> ""]

Active(r) == r.pc \notin {"idle", "done"}
InTx(r) == r.pc \in {"update", "count", "hide", "commit"}

\* A new request is served by the lowest slot that is not in flight.
Free(s) == ~Active(req[s]) /\ \A t \in Slots : t < s => Active(req[t])

Alone(s) == \A t \in Slots \ {s} : ~Active(req[t])

New(s, r) == [r EXCEPT !.solo = Alone(s)]

\* A request enters slot s; the answers of finished requests leave their
\* slots, the requests in flight are no longer alone.
Enter(s, r) ==
  [t \in Slots |->
     IF t = s THEN r
     ELSE IF ~Active(req[t]) THEN IdleReq
     ELSE [req[t] EXCEPT !.solo = FALSE, !.rivals = req[t].rivals \ {s}]]

\* The response: the transaction (if any) is over, its private writes gone.
Respond(r, outcome) ==
  LET raced == r.rivals # {}
  IN [IdleReq EXCEPT !.pc = "done", !.kind = r.kind, !.result = outcome,
                     !.solo = r.solo, !.rivals = r.rivals, !.fault = r.fault,
                     !.own = r.own, !.n = r.n, !.role = r.role,
                     !.caller = IF raced THEN r.caller ELSE Null,
                     !.postId = IF raced THEN r.postId ELSE Null,
                     !.commentId = IF raced THEN r.commentId ELSE Null]

\* ---------------------------------------------------------------- store
SameTarget(row, p, c) == row.postId = p /\ row.commentId = c

\* another open transaction holds the unique key (who, p, c) of a table: it
\* inserted the key, or it deleted the committed row that holds it
KeyHeldByOther(s, who, p, c) ==
  \E t \in Slots \ {s} :
    \/ \E row \in req[t].ins : row.who = who /\ SameTarget(row, p, c) /\ req[t].kind = req[s].kind
    \/ \E row \in req[t].del : row.who = who /\ SameTarget(row, p, c)
                                /\ req[t].kind \in (IF req[s].kind = "add" THEN {"remove"} ELSE {"dismiss"})

\* another open transaction has written the author's users row
UserLockedByOther(s, u) ==
  \E t \in Slots \ {s} : req[t].delta # 0 /\ req[t].author = u

\* a row lock that outlives its transaction: it is held until the next
\* request takes the connection
ItemLockedByOther_Leaked(s, p, c) ==
  \E t \in Slots \ {s} : req[t].kind \in {"report", "dismiss"} /\ req[t].pc \notin {"idle", "insert", "deleteMany"}

\* another open transaction has written the row of the item (p, c)
ItemLockedByOther(s, p, c) ==
  \E t \in Slots \ {s} : req[t].flag # "none" /\ req[t].postId = p /\ req[t].commentId = c

\* the limiters, the operation classes behind them and the keys they count:
\* no request has reached a limiter yet
Limiters == {"loginLimiter", "voteLimiter", "reportLimiter"}
Classes == {"login", "verifyEmail", "vote", "report"}
Keys == {<<"user", u>> : u \in {1, 2, 4, 5}} \cup {<<"ip", 1>>}
IdleGate ==
  [pc |-> "idle", class |-> "", key |-> <<"", Null>>, user |-> Null, counted |-> FALSE,
   status |-> 0, retryAfter |-> 0, current |-> FALSE]

InitGovernor ==
  /\ totalHits = [l \in Limiters |-> [k \in Keys |-> 0]]
  /\ resetIn = [l \in Limiters |-> [k \in Keys |-> 0]]
  /\ gate = [s \in Slots |-> IdleGate]
  /\ calls = [c \in Classes |-> [k \in Keys |-> 0]]

\* ------------------------------------------------------ Init (seed data)
\* the store before the first request: users with learningScore 0, no vote,
\* no report, and the seeded content
Seeded(ps, cs) ==
  /\ posts = ps
  /\ comments = cs
  /\ learningScore = [u \in UserIds |-> 0]
  /\ votes = {}
  /\ reports = {}
  /\ nextVoteId = 1
  /\ nextReportId = 1
  /\ req = [s \in Slots |-> IdleReq]
  /\ savedPosts = {}
  /\ InitGovernor

SeedPost(a) == [p \in {1} |-> [authorId |-> a, deletedAt |-> FALSE, isHidden |-> FALSE,
                                rev |-> 0]]
SeedComment(a) == [c \in {1} |-> [authorId |-> a, isHidden |-> FALSE]]
NoRows == [x \in {} |-> x]

\* post 1 written by user 1 and comment 1 written by user 2
InitLedger == Seeded(SeedPost(1), SeedComment(2))

\* one item written by user 1: post 1, or comment 1
InitModeration == Seeded(SeedPost(1), NoRows) \/ Seeded(NoRows, SeedComment(1))

\* The store after k reports on that item were made one at a time by users
\* 2..k+1 (SpecModeration reaches each of these from InitModeration): k
\* rows, isHidden set once k reaches the threshold.
EarlierReports(p, c, k) ==
  {[id |-> MaxReportId - MaxNewReports - k + i, who |-> i + 1, postId |-> p, commentId |-> c,
    reason |-> "SPAM"] : i \in 1..k}

InitReported ==
  \E k \in 0..REPORT_THRESHOLD :
    /\ \/ /\ posts = [SeedPost(1) EXCEPT ![1].isHidden = (k >= REPORT_THRESHOLD)]
          /\ comments = NoRows
          /\ reports = EarlierReports(1, Null, k)
       \/ /\ posts = NoRows
          /\ comments = [SeedComment(1) EXCEPT ![1].isHidden = (k >= REPORT_THRESHOLD)]
          /\ reports = EarlierReports(Null, 1, k)
    /\ learningScore = [u \in UserIds |-> 0]
    /\ votes = {}
    /\ nextVoteId = 1
    /\ nextReportId = MaxReportId - MaxNewReports + 1
    /\ req = [s \in Slots |-> IdleReq]
    /\ savedPosts = {}
    /\ InitGovernor

\* Users that hold no role and no row and make no request are
\* interchangeable: a request by such a user is made by the lowest of them.
Known(u) ==
  \/ IsAdmin(u)
  \/ \E p \in DOMAIN posts : posts[p].authorId = u
  \/ \E c \in DOMAIN comments : comments[c].authorId = u
  \/ \E row \in votes \cup reports : row.who = u
  \/ \E s \in Slots : req[s].pc # "idle" /\ req[s].caller = u
Callers == {u \in UserIds : Known(u) \/ \A w \in UserIds : w < u => Known(w)}

\* --------------------------------------------------------------- addVote
\* what the lookup of the target finds: Null (no row, or a deleted post) or
\* the author's id
TargetAuthor(p, c) ==
  IF p # Null
  THEN IF p \notin DOMAIN posts \/ posts[p].deletedAt THEN Null ELSE posts[p].authorId
  ELSE IF c \notin DOMAIN comments THEN Null ELSE comments[c].authorId

\* exactly one of postId, commentId
InvalidTarget(p, c) == (p = Null /\ c = Null) \/ (p # Null /\ c # Null)

\* the stored item (p, c) names, when u wrote it: "post", "comment" or ""
OwnItem(u, p, c) ==
  IF p \in DOMAIN posts /\ c = Null /\ posts[p].authorId = u THEN "post"
  ELSE IF c \in DOMAIN comments /\ p = Null /\ comments[c].authorId = u THEN "comment"
  ELSE ""

\* an addVote without the self-vote test
AddOutcome_NoSelfTest(u, p, c) ==
  IF InvalidTarget(p, c) THEN "InvalidTarget"
  ELSE IF TargetAuthor(p, c) = Null THEN "NotFound"
  ELSE "proceed"

\* addVote before its existing-vote lookup: the target validation, then
\* post.findUnique / comment.findUnique and the self-vote test
AddOutcome(u, p, c) ==
  IF InvalidTarget(p, c) THEN "InvalidTarget"
  ELSE IF TargetAuthor(p, c) = Null THEN "NotFound"
  ELSE IF TargetAuthor(p, c) = u THEN "SelfInteraction"
  ELSE "proceed"

\* addVote up to its first answer or its existing-vote lookup.  (The code
\* before the first storage call touches nothing shared, so it is taken
\* together with that call.)
AddStart(s, u, p, c) ==
  /\ Free(s)
  /\ LET r == New(s, [IdleReq EXCEPT !.kind = "add", !.caller = u, !.postId = p, !.commentId = c,
                                     !.own = OwnItem(u, p, c)])
     IN req' = Enter(s, IF AddOutcome(u, p, c) # "proceed" THEN Respond(r, AddOutcome(u, p, c))
                         ELSE [r EXCEPT !.pc = "check", !.author = TargetAuthor(p, c)])
  /\ UNCHANGED <<posts, comments, learningScore, votes, reports, nextVoteId, nextReportId>>
  /\ UNCHANGED <<governor, savedPosts>>

ExistingVote(r) == {v \in votes : v.who = r.caller /\ SameTarget(v, r.postId, r.commentId)}

\* vote.findUnique on (userId, postId) or (userId, commentId)
AddCheck(s) ==
  /\ req[s].kind = "add" /\ req[s].pc = "check"
  /\ req' = [req EXCEPT ![s] =
               IF ExistingVote(req[s]) # {} THEN Respond(req[s], "Conflict")
               ELSE [req[s] EXCEPT !.pc = "insert"]]
  /\ UNCHANGED <<posts, comments, learningScore, votes, reports, nextVoteId, nextReportId>>
  /\ UNCHANGED <<governor, savedPosts>>

\* the outcome addVote gives a unique-constraint violation (P2002): its
\* catch block does not look at the error code
AddOnUniqueViolation == "InternalError"

\* a committed row of the request's table holds the request's key
KeyStored(s) ==
  \E row \in (IF req[s].kind = "add" THEN votes ELSE reports) :
    row.who = req[s].caller /\ SameTarget(row, req[s].postId, req[s].commentId)

\* the requests slot s races with when it inserts a key no committed row
\* holds: those on the same key that are past their checks and have not
\* yet inserted
Racing(s) ==
  IF KeyStored(s) THEN {}
  ELSE {t \in Slots \ {s} : /\ req[t].kind = req[s].kind /\ req[t].pc = "insert"
                            /\ req[t].caller = req[s].caller
                            /\ SameTarget(req[t], req[s].postId, req[s].commentId)}

\* slot s moves to r; the requests it races with learn of it
InRace(s, others, r) ==
  [t \in Slots |-> IF t = s THEN r
                   ELSE IF t \in others THEN [req[t] EXCEPT !.rivals = @ \cup {s}]
                   ELSE req[t]]

\* tx.vote.create on a table without the unique indexes
AddInsert_NoUniqueIndex(s) ==
  /\ req[s].kind = "add" /\ req[s].pc = "insert"
  /\ nextVoteId <= MaxVoteId
  /\ LET r == [req[s] EXCEPT !.rivals = @ \cup Racing(s)]
     IN req' = InRace(s, Racing(s),
                  [r EXCEPT !.pc = "update",
                            !.ins = {[id |-> nextVoteId, who |-> r.caller,
                                      postId |-> r.postId, commentId |-> r.commentId]}])
  /\ nextVoteId' = nextVoteId + 1
  /\ UNCHANGED <<posts, comments, learningScore, votes, reports, nextReportId>>
  /\ UNCHANGED <<governor, savedPosts>>

\* tx.vote.create under the unique indexes (userId, postId), (userId, commentId)
AddInsert(s) ==
  /\ req[s].kind = "add" /\ req[s].pc = "insert"
  /\ nextVoteId <= MaxVoteId
  /\ ~KeyHeldByOther(s, req[s].caller, req[s].postId, req[s].commentId)
  /\ LET r == [req[s] EXCEPT !.rivals = @ \cup Racing(s)]
     IN req' = InRace(s, Racing(s),
                  IF ExistingVote(r) # {} THEN Respond(r, AddOnUniqueViolation)
                  ELSE [r EXCEPT !.pc = "update",
                                 !.ins = {[id |-> nextVoteId, who |-> r.caller,
                                           postId |-> r.postId, commentId |-> r.commentId]}])
  /\ nextVoteId' = nextVoteId + 1
  /\ UNCHANGED <<posts, comments, learningScore, votes, reports, nextReportId>>
  /\ UNCHANGED <<governor, savedPosts>>

\* tx.user.update({ learningScore: { increment: 1 } })
AddUpdate(s) ==
  /\ req[s].kind = "add" /\ req[s].pc = "update"
  /\ ~UserLockedByOther(s, req[s].author)
  /\ req' = [req EXCEPT ![s] = [req[s] EXCEPT !.pc = "commit", !.delta = 1]]
  /\ UNCHANGED <<posts, comments, learningScore, votes, reports, nextVoteId, nextReportId>>
  /\ UNCHANGED <<governor, savedPosts>>

\* the writes of a ledger transaction, made visible together by its commit
LedgerCommitVotes(r) == (votes \ r.del) \cup r.ins
LedgerCommitScore(r) == [learningScore EXCEPT ![r.author] = @ + r.delta]

AddCommit(s) ==
  /\ req[s].kind = "add" /\ req[s].pc = "commit"
  /\ votes' = LedgerCommitVotes(req[s])
  /\ learningScore' = LedgerCommitScore(req[s])
  /\ req' = [req EXCEPT ![s] = Respond(req[s], "Created")]
  /\ UNCHANGED <<posts, comments, reports, nextVoteId, nextReportId>>
  /\ UNCHANGED <<governor, savedPosts>>

\* ------------------------------------------------------------ removeVote
VoteById(id) == {v \in votes : v.id = id}

\* the author removeVote credits: vote.post.authorId or vote.comment.authorId
VoteTargetAuthor(v) ==
  IF v.postId # Null THEN posts[v.postId].authorId ELSE comments[v.commentId].authorId

\* removeVote's answer before its transaction: 404 when vote.findUnique
\* finds no row, 403 when the row's userId is not the caller's
RemoveOutcome_NoOwnerTest(u, id) == IF VoteById(id) = {} THEN "NotFound" ELSE "proceed"
RemoveOutcome(u, id) ==
  IF VoteById(id) = {} THEN "NotFound"
  ELSE IF (CHOOSE v \in VoteById(id) : TRUE).who # u THEN "Forbidden"
  ELSE "proceed"

\* removeVote up to the transaction: vote.findUnique with its post/comment
\* author, then the ownership test
RemoveStart(s, u, id) ==
  /\ Free(s)
  /\ LET r == New(s, [IdleReq EXCEPT !.kind = "remove", !.caller = u, !.arg = id])
     IN req' = Enter(s,
                  IF RemoveOutcome(u, id) # "proceed"
                  THEN [Respond(r, RemoveOutcome(u, id)) EXCEPT !.caller = u, !.arg = id]
                  ELSE [r EXCEPT !.pc = "delete",
                                 !.author = VoteTargetAuthor(CHOOSE v \in VoteById(id) : TRUE)])
  /\ UNCHANGED <<posts, comments, learningScore, votes, reports, nextVoteId, nextReportId>>
  /\ UNCHANGED <<governor, savedPosts>>

\* a tx.vote.delete that neither waits for the row nor fails without it
RemoveDelete_Blind(s) ==
  /\ req[s].kind = "remove" /\ req[s].pc = "delete"
  /\ req' = [req EXCEPT ![s] = [req[s] EXCEPT !.pc = "update", !.del = VoteById(req[s].arg)]]
  /\ UNCHANGED <<posts, comments, learningScore, votes, reports, nextVoteId, nextReportId>>
  /\ UNCHANGED <<governor, savedPosts>>

\* tx.vote.delete: waits for a transaction that has deleted the row, fails
\* (P2025) when the row is gone
RemoveDelete(s) ==
  /\ req[s].kind = "remove" /\ req[s].pc = "delete"
  /\ \A t \in Slots \ {s} : \A row \in req[t].del : ~(req[t].kind = "remove" /\ row.id = req[s].arg)
  /\ req' = [req EXCEPT ![s] =
               IF VoteById(req[s].arg) = {} THEN Respond(req[s], "InternalError")
               ELSE [req[s] EXCEPT !.pc = "update", !.del = VoteById(req[s].arg)]]
  /\ UNCHANGED <<posts, comments, learningScore, votes, reports, nextVoteId, nextReportId>>
  /\ UNCHANGED <<governor, savedPosts>>

\* a removeVote that leaves the author's learningScore alone
RemoveUpdate_NoDecrement(s) ==
  /\ req[s].kind = "remove" /\ req[s].pc = "update"
  /\ req' = [req EXCEPT ![s] = [req[s] EXCEPT !.pc = "commit"]]
  /\ UNCHANGED <<posts, comments, learningScore, votes, reports, nextVoteId, nextReportId>>
  /\ UNCHANGED <<governor, savedPosts>>

\* tx.user.update({ learningScore: { decrement: 1 } })
RemoveUpdate(s) ==
  /\ req[s].kind = "remove" /\ req[s].pc = "update"
  /\ ~UserLockedByOther(s, req[s].author)
  /\ req' = [req EXCEPT ![s] = [req[s] EXCEPT !.pc = "commit", !.delta = -1]]
  /\ UNCHANGED <<posts, comments, learningScore, votes, reports, nextVoteId, nextReportId>>
  /\ UNCHANGED <<governor, savedPosts>>

RemoveCommit(s) ==
  /\ req[s].kind = "remove" /\ req[s].pc = "commit"
  /\ votes' = LedgerCommitVotes(req[s])
  /\ learningScore' = LedgerCommitScore(req[s])
  /\ req' = [req EXCEPT ![s] = Respond(req[s], "Removed")]
  /\ UNCHANGED <<posts, comments, reports, nextVoteId, nextReportId>>
  /\ UNCHANGED <<governor, savedPosts>>

\* ------------------------------------------------------------ deletePost
isOwner(userId, resourceOwnerId) == userId = resourceOwnerId

\* deletePost up to its write: post.findFirst({ id, deletedAt: null }), then
\* the ownership test
DeletePostStart(s, u, p) ==
  /\ Free(s)
  /\ LET r == New(s, [IdleReq EXCEPT !.kind = "deletePost", !.caller = u, !.postId = p])
     IN req' = Enter(s,
                  IF p \notin DOMAIN posts \/ posts[p].deletedAt THEN Respond(r, "NotFound")
                  ELSE IF ~isOwner(u, posts[p].authorId) THEN Respond(r, "Forbidden")
                  ELSE [r EXCEPT !.pc = "softDelete"])
  /\ UNCHANGED <<posts, comments, learningScore, votes, reports, nextVoteId, nextReportId>>
  /\ UNCHANGED <<governor, savedPosts>>

\* a delete that takes the votes of the post along
DeletePostUpdate_DropsVotes(s) ==
  /\ req[s].kind = "deletePost" /\ req[s].pc = "softDelete"
  /\ ~ItemLockedByOther(s, req[s].postId, Null)
  /\ posts' = [posts EXCEPT ![req[s].postId].deletedAt = TRUE]
  /\ votes' = {v \in votes : v.postId # req[s].postId}
  /\ req' = [req EXCEPT ![s] = Respond(req[s], "Deleted")]
  /\ UNCHANGED <<comments, learningScore, reports, nextVoteId, nextReportId>>
  /\ UNCHANGED <<governor, savedPosts>>

\* post.update({ deletedAt: new Date() })
DeletePostUpdate(s) ==
  /\ req[s].kind = "deletePost" /\ req[s].pc = "softDelete"
  /\ ~ItemLockedByOther(s, req[s].postId, Null)
  /\ posts' = [posts EXCEPT ![req[s].postId].deletedAt = TRUE]
  /\ req' = [req EXCEPT ![s] = Respond(req[s], "Deleted")]
  /\ UNCHANGED <<comments, learningScore, votes, reports, nextVoteId, nextReportId>>
  /\ UNCHANGED <<governor, savedPosts>>

\* --------------------------------------------------------- reportContent
\* reportContent before its transaction: the target validation, the reason
\* validation, post.findUnique / comment.findUnique, the self-report test
\* a reportContent that looks the target up before it validates the reason
ReportOutcome_LookupFirst(u, p, c, reason) ==
  IF InvalidTarget(p, c) THEN "InvalidTarget"
  ELSE IF TargetAuthor(p, c) = Null THEN "NotFound"
  ELSE IF TargetAuthor(p, c) = u THEN "SelfInteraction"
  ELSE IF reason \notin ValidReasons THEN "InvalidReason"
  ELSE "proceed"

ReportOutcome(u, p, c, reason) ==
  IF InvalidTarget(p, c) THEN "InvalidTarget"
  ELSE IF reason \notin ValidReasons THEN "InvalidReason"
  ELSE IF TargetAuthor(p, c) = Null THEN "NotFound"
  ELSE IF TargetAuthor(p, c) = u THEN "SelfInteraction"
  ELSE "proceed"

ReportStart(s, u, p, c, reason) ==
  /\ Free(s)
  /\ LET r == New(s, [IdleReq EXCEPT !.kind = "report", !.caller = u, !.postId = p,
                                     !.commentId = c, !.reason = reason,
                                     !.own = OwnItem(u, p, c)])
     IN req' = Enter(s, IF ReportOutcome(u, p, c, reason) # "proceed"
                         THEN Respond(r, ReportOutcome(u, p, c, reason))
                         ELSE [r EXCEPT !.pc = "insert", !.author = TargetAuthor(p, c)])
  /\ UNCHANGED <<posts, comments, learningScore, votes, reports, nextVoteId, nextReportId>>
  /\ UNCHANGED <<governor, savedPosts>>

ExistingReport(r) == {x \in reports : x.who = r.caller /\ SameTarget(x, r.postId, r.commentId)}

\* a catch block that does not look at the error code
ReportOnUniqueViolation_Generic == "InternalError"

\* the outcome reportContent gives a unique-constraint violation (P2002)
ReportOnUniqueViolation == "Conflict"

\* tx.report.create under the unique indexes (reporterId, postId),
\* (reporterId, commentId)
ReportInsert(s) ==
  /\ req[s].kind = "report" /\ req[s].pc = "insert"
  /\ nextReportId <= MaxReportId
  /\ ~KeyHeldByOther(s, req[s].caller, req[s].postId, req[s].commentId)
  /\ LET r == [req[s] EXCEPT !.rivals = @ \cup Racing(s)]
     IN req' = InRace(s, Racing(s),
                  IF ExistingReport(r) # {} THEN Respond(r, ReportOnUniqueViolation)
                  ELSE [r EXCEPT !.pc = "count",
                                 !.ins = {[id |-> nextReportId, who |-> r.caller,
                                           postId |-> r.postId, commentId |-> r.commentId,
                                           reason |-> r.reason]}])
  /\ nextReportId' = nextReportId + 1
  /\ UNCHANGED <<posts, comments, learningScore, votes, reports, nextVoteId>>
  /\ UNCHANGED <<governor, savedPosts>>

\* the rows tx.report.count sees: the committed reports of the target and
\* the transaction's own insert
ReportsSeen(r) == {x \in reports : SameTarget(x, r.postId, r.commentId)} \cup r.ins

\* a threshold test that asks for more than REPORT_THRESHOLD reports
ReportCount_Above(s) ==
  /\ req[s].kind = "report" /\ req[s].pc = "count"
  /\ req' = [req EXCEPT ![s] =
               [req[s] EXCEPT !.pc = IF Cardinality(ReportsSeen(req[s])) > REPORT_THRESHOLD
                                     THEN "hide" ELSE "commit"]]
  /\ UNCHANGED <<posts, comments, learningScore, votes, reports, nextVoteId, nextReportId>>
  /\ UNCHANGED <<governor, savedPosts>>

\* a threshold test that hides only at the REPORT_THRESHOLD-th report
ReportCount_Exactly(s) ==
  /\ req[s].kind = "report" /\ req[s].pc = "count"
  /\ req' = [req EXCEPT ![s] =
               [req[s] EXCEPT !.pc = IF Cardinality(ReportsSeen(req[s])) = REPORT_THRESHOLD
                                     THEN "hide" ELSE "commit"]]
  /\ UNCHANGED <<posts, comments, learningScore, votes, reports, nextVoteId, nextReportId>>
  /\ UNCHANGED <<governor, savedPosts>>

\* tx.report.count, then the threshold test
ReportCount(s) ==
  /\ req[s].kind = "report" /\ req[s].pc = "count"
  /\ req' = [req EXCEPT ![s] =
               [req[s] EXCEPT !.pc = IF Cardinality(ReportsSeen(req[s])) >= REPORT_THRESHOLD
                                     THEN "hide" ELSE "commit"]]
  /\ UNCHANGED <<posts, comments, learningScore, votes, reports, nextVoteId, nextReportId>>
  /\ UNCHANGED <<governor, savedPosts>>

\* tx.post.update / tx.comment.update({ isHidden: true })
ReportHide(s) ==
  /\ req[s].kind = "report" /\ req[s].pc = "hide"
  /\ ~ItemLockedByOther(s, req[s].postId, req[s].commentId)
  /\ req' = [req EXCEPT ![s] = [req[s] EXCEPT !.pc = "commit", !.flag = "hide"]]
  /\ UNCHANGED <<posts, comments, learningScore, votes, reports, nextVoteId, nextReportId>>
  /\ UNCHANGED <<governor, savedPosts>>

\* the tables after isHidden of the item (p, c) is written
PostsWithHidden(p, c, h) == IF p # Null THEN [posts EXCEPT ![p].isHidden = h] ELSE posts
CommentsWithHidden(p, c, h) ==
  IF p = Null /\ c # Null THEN [comments EXCEPT ![c].isHidden = h] ELSE comments

\* the writes of an aggregator transaction, made visible together by its commit
ModerationCommitReports(r) == (reports \ r.del) \cup r.ins
ModerationCommitPosts(r) ==
  IF r.flag = "none" THEN posts ELSE PostsWithHidden(r.postId, r.commentId, r.flag = "hide")
ModerationCommitComments(r) ==
  IF r.flag = "none" THEN comments ELSE CommentsWithHidden(r.postId, r.commentId, r.flag = "hide")

ReportCommit(s) ==
  /\ req[s].kind = "report" /\ req[s].pc = "commit"
  /\ reports' = ModerationCommitReports(req[s])
  /\ posts' = ModerationCommitPosts(req[s])
  /\ comments' = ModerationCommitComments(req[s])
  /\ req' = [req EXCEPT ![s] = Respond(req[s], "Created")]
  /\ UNCHANGED <<learningScore, votes, nextVoteId, nextReportId>>
  /\ UNCHANGED <<governor, savedPosts>>

\* ------------------------------------------------- admin: unhideContent
ReportById(id) == {x \in reports : x.id = id}

\* the caller as the admin routes tell callers apart
RoleName(u) == IF u = Null THEN "anonymous" ELSE IF IsAdmin(u) THEN "admin" ELSE "user"

\* router.use(requireAuth, requireAdmin): 401 without a user, 403 for a
\* user who is no administrator
AdminGate_NoAdminTest(u) == IF u = Null THEN "Unauthorized" ELSE "next"
AdminGate(u) ==
  IF u = Null THEN "Unauthorized" ELSE IF ~IsAdmin(u) THEN "Forbidden" ELSE "next"

\* requireAuth and requireAdmin, then report.findUnique
AdminLookup(r, id, next) ==
  IF AdminGate(r.caller) # "next" THEN Respond(r, AdminGate(r.caller))
  ELSE IF ReportById(id) = {} THEN Respond(r, "NotFound")
  ELSE LET x == CHOOSE x \in ReportById(id) : TRUE
       IN [r EXCEPT !.pc = next, !.postId = x.postId, !.commentId = x.commentId]

UnhideStart(s, u, id) ==
  /\ Free(s)
  /\ req' = Enter(s, AdminLookup(New(s, [IdleReq EXCEPT !.kind = "unhide", !.caller = u, !.arg = id,
                                                         !.role = RoleName(u)]),
                                 id, "unhide"))
  /\ UNCHANGED <<posts, comments, learningScore, votes, reports, nextVoteId, nextReportId>>
  /\ UNCHANGED <<governor, savedPosts>>

\* an unhide that also deletes the reports of the item
UnhideUpdate_Dismisses(s) ==
  /\ req[s].kind = "unhide" /\ req[s].pc = "unhide"
  /\ ~ItemLockedByOther(s, req[s].postId, req[s].commentId)
  /\ posts' = PostsWithHidden(req[s].postId, req[s].commentId, FALSE)
  /\ comments' = CommentsWithHidden(req[s].postId, req[s].commentId, FALSE)
  /\ reports' = {x \in reports : ~SameTarget(x, req[s].postId, req[s].commentId)}
  /\ req' = [req EXCEPT ![s] = Respond(req[s], "Unhidden")]
  /\ UNCHANGED <<learningScore, votes, nextVoteId, nextReportId>>
  /\ UNCHANGED <<governor, savedPosts>>

\* post.update / comment.update({ isHidden: false }), outside any transaction
UnhideUpdate(s) ==
  /\ req[s].kind = "unhide" /\ req[s].pc = "unhide"
  /\ ~ItemLockedByOther(s, req[s].postId, req[s].commentId)
  /\ posts' = PostsWithHidden(req[s].postId, req[s].commentId, FALSE)
  /\ comments' = CommentsWithHidden(req[s].postId, req[s].commentId, FALSE)
  /\ req' = [req EXCEPT ![s] = Respond(req[s], "Unhidden")]
  /\ UNCHANGED <<learningScore, votes, reports, nextVoteId, nextReportId>>
  /\ UNCHANGED <<governor, savedPosts>>

\* ------------------------------------------------ admin: dismissReports
DismissStart(s, u, id) ==
  /\ Free(s)
  /\ req' = Enter(s, AdminLookup(New(s, [IdleReq EXCEPT !.kind = "dismiss", !.caller = u, !.arg = id,
                                                         !.role = RoleName(u)]),
                                 id, "deleteMany"))
  /\ UNCHANGED <<posts, comments, learningScore, votes, reports, nextVoteId, nextReportId>>
  /\ UNCHANGED <<governor, savedPosts>>

\* a deleteMany of the named report alone
DismissedRows_OnlyNamed(r) == {x \in reports : x.id = r.arg}

\* the rows tx.report.deleteMany deletes: the committed reports of the target
DismissedRows(r) == {x \in reports : SameTarget(x, r.postId, r.commentId)}

\* a deleteMany made outside the transaction: the rows are gone at once
DismissDelete_Autocommit(s) ==
  /\ req[s].kind = "dismiss" /\ req[s].pc = "deleteMany"
  /\ reports' = reports \ DismissedRows(req[s])
  /\ req' = [req EXCEPT ![s] = [req[s] EXCEPT !.pc = "update",
                                              !.n = Cardinality(DismissedRows(req[s]))]]
  /\ UNCHANGED <<posts, comments, learningScore, votes, nextVoteId, nextReportId>>
  /\ UNCHANGED <<governor, savedPosts>>

\* tx.report.deleteMany({ postId }) / ({ commentId }): waits for a
\* transaction that has deleted one of the rows
DismissDelete(s) ==
  /\ req[s].kind = "dismiss" /\ req[s].pc = "deleteMany"
  /\ \A t \in Slots \ {s} : req[t].kind = "dismiss" => req[t].del \cap DismissedRows(req[s]) = {}
  /\ req' = [req EXCEPT ![s] = [req[s] EXCEPT !.pc = "update", !.del = DismissedRows(req[s]),
                                              !.n = Cardinality(DismissedRows(req[s]))]]
  /\ UNCHANGED <<posts, comments, learningScore, votes, reports, nextVoteId, nextReportId>>
  /\ UNCHANGED <<governor, savedPosts>>

\* tx.post.update / tx.comment.update({ isHidden: false })
DismissUpdate(s) ==
  /\ req[s].kind = "dismiss" /\ req[s].pc = "update"
  /\ ~ItemLockedByOther(s, req[s].postId, req[s].commentId)
  /\ req' = [req EXCEPT ![s] = [req[s] EXCEPT !.pc = "commit", !.flag = "unhide"]]
  /\ UNCHANGED <<posts, comments, learningScore, votes, reports, nextVoteId, nextReportId>>
  /\ UNCHANGED <<governor, savedPosts>>

DismissCommit(s) ==
  /\ req[s].kind = "dismiss" /\ req[s].pc = "commit"
  /\ reports' = ModerationCommitReports(req[s])
  /\ posts' = ModerationCommitPosts(req[s])
  /\ comments' = ModerationCommitComments(req[s])
  /\ req' = [req EXCEPT ![s] = Respond(req[s], "Dismissed")]
  /\ UNCHANGED <<learningScore, votes, nextVoteId, nextReportId>>
  /\ UNCHANGED <<governor, savedPosts>>

\* ------------------------------------------------------ post read paths
\* the callers of the read paths: anonymous, the author, another user, the
\* administrator
Viewers == {Null, 1, 2, 3}
\* the authorId a list can be scoped to: none, the author, another user
AuthorScopes == {Null, 1, 2}

\* the answer of a read: who asked, what was asked for, the rows returned
ReadRespond(r, outcome, rows) ==
  [IdleReq EXCEPT !.pc = "done", !.kind = r.kind, !.result = outcome, !.solo = r.solo,
                  !.caller = r.caller, !.postId = r.postId, !.commentId = r.commentId,
                  !.arg = r.arg, !.seen = rows]

\* the rows of prisma.post.findMany({ where }) with where = { deletedAt:
\* null } and, when the query names one, authorId
PostsWhere(authorId) ==
  {p \in DOMAIN posts : ~posts[p].deletedAt /\ (authorId # Null => posts[p].authorId = authorId)}

\* listPosts: GET /api/posts (no authentication middleware on the route)
ListPosts(s, viewer, authorId) ==
  /\ Free(s)
  /\ req' = Enter(s, ReadRespond(New(s, [IdleReq EXCEPT !.kind = "listPosts", !.caller = viewer,
                                                        !.arg = authorId]),
                                 "OK", PostsWhere(authorId)))
  /\ UNCHANGED <<posts, comments, learningScore, votes, reports, nextVoteId, nextReportId>>
  /\ UNCHANGED <<governor, savedPosts>>

\* getPostById: GET /api/posts/:id
GetPostById(s, viewer, id) ==
  /\ Free(s)
  /\ LET r == New(s, [IdleReq EXCEPT !.kind = "getPostById", !.caller = viewer, !.postId = id])
         found == {p \in PostsWhere(Null) : p = id}
     IN req' = Enter(s, IF found = {} THEN ReadRespond(r, "NotFound", {})
                         ELSE ReadRespond(r, "OK", found))
  /\ UNCHANGED <<posts, comments, learningScore, votes, reports, nextVoteId, nextReportId>>
  /\ UNCHANGED <<governor, savedPosts>>

\* getPostsByAuthor: GET /api/posts/author/:authorId; user.findUnique, then
\* the list (the users table does not change)
GetPostsByAuthor(s, viewer, authorId) ==
  /\ Free(s)
  /\ LET r == New(s, [IdleReq EXCEPT !.kind = "getPostsByAuthor", !.caller = viewer,
                                     !.arg = authorId])
     IN req' = Enter(s, IF authorId \notin UserIds THEN ReadRespond(r, "NotFound", {})
                         ELSE ReadRespond(r, "OK", PostsWhere(authorId)))
  /\ UNCHANGED <<posts, comments, learningScore, votes, reports, nextVoteId, nextReportId>>
  /\ UNCHANGED <<governor, savedPosts>>

\* ------------------------------------------------- moderation utilities
\* a canViewHiddenContent that admits administrators only
canViewHiddenContent_AdminOnly(user, authorId) ==
  IF user = Null THEN FALSE ELSE IsAdmin(user)

\* canViewHiddenContent(user, authorId)
canViewHiddenContent(user, authorId) ==
  IF user = Null THEN FALSE ELSE IsAdmin(user) \/ user = authorId

\* a filter without the own-content rule
getPostVisibilityFilter_AdminOnly(user, authorId) ==
  IF user # Null /\ IsAdmin(user) THEN "all" ELSE "notHidden"

\* getPostVisibilityFilter(user, authorId) and getCommentVisibilityFilter
\* (the same body): {} ("all") or { isHidden: false } ("notHidden")
getPostVisibilityFilter(user, authorId) ==
  IF user # Null /\ IsAdmin(user) THEN "all"
  ELSE IF user # Null /\ authorId # Null /\ user = authorId THEN "all"
  ELSE "notHidden"

\* the stored items as (postId, commentId), and their columns
StoredItems == {<<p, Null>> : p \in DOMAIN posts} \cup {<<Null, c>> : c \in DOMAIN comments}
ItemAuthor(i) == IF i[1] # Null THEN posts[i[1]].authorId ELSE comments[i[2]].authorId
ItemHidden(i) == IF i[1] # Null THEN posts[i[1]].isHidden ELSE comments[i[2]].isHidden
ItemDeleted(i) == IF i[1] # Null THEN posts[i[1]].deletedAt ELSE FALSE

\* The visibility decision of the feed and detail reads, whose controllers
\* are not part of the sources: deleted items are never returned, hidden
\* items only to those canViewHiddenContent admits.
visible(viewer, i) ==
  IF ItemDeleted(i) THEN FALSE
  ELSE IF ItemHidden(i) THEN canViewHiddenContent(viewer, ItemAuthor(i))
  ELSE TRUE

\* The list query of the feeds: where = { deletedAt: null, authorId (when
\* scoped), ...getPostVisibilityFilter(user, authorId) }
listFilter(viewer, authorScope) ==
  {i \in StoredItems :
     /\ ~ItemDeleted(i)
     /\ authorScope # Null => ItemAuthor(i) = authorScope
     /\ getPostVisibilityFilter(viewer, authorScope) = "notHidden" => ~ItemHidden(i)}

\* the decision is taken for a viewer and an item
VisibleCheck(s, viewer, i) ==
  /\ Free(s)
  /\ req' = Enter(s, ReadRespond(New(s, [IdleReq EXCEPT !.kind = "visible", !.caller = viewer,
                                                        !.postId = i[1], !.commentId = i[2]]),
                                 IF visible(viewer, i) THEN "Visible" ELSE "Invisible", {}))
  /\ UNCHANGED <<posts, comments, learningScore, votes, reports, nextVoteId, nextReportId>>
  /\ UNCHANGED <<governor, savedPosts>>

\* the list query is run for a viewer and a scope
ListFiltered(s, viewer, authorScope) ==
  /\ Free(s)
  /\ req' = Enter(s, ReadRespond(New(s, [IdleReq EXCEPT !.kind = "listFilter", !.caller = viewer,
                                                        !.arg = authorScope]),
                                 "OK", listFilter(viewer, authorScope)))
  /\ UNCHANGED <<posts, comments, learningScore, votes, reports, nextVoteId, nextReportId>>
  /\ UNCHANGED <<governor, savedPosts>>

\* -------------------------------------------------- the administrator's reads
\* the answer of an admin read: the ids of the report rows it returns
AdminRead(r, outcome, rows) == [ReadRespond(r, outcome, rows) EXCEPT !.role = r.role]

\* listReports: report.findMany behind requireAuth and requireAdmin
ListReports(s, u) ==
  LET r == New(s, [IdleReq EXCEPT !.kind = "listReports", !.caller = u, !.role = RoleName(u)])
  IN /\ Free(s)
     /\ req' = Enter(s, IF AdminGate(u) # "next" THEN Respond(r, AdminGate(u))
                        ELSE AdminRead(r, "OK", {x.id : x \in reports}))
  /\ UNCHANGED <<posts, comments, learningScore, votes, reports, nextVoteId, nextReportId>>
  /\ UNCHANGED <<governor, savedPosts>>

\* getReportDetails: report.findUnique behind requireAuth and requireAdmin
GetReportDetails(s, u, id) ==
  LET r == New(s, [IdleReq EXCEPT !.kind = "getReportDetails", !.caller = u, !.arg = id,
                                  !.role = RoleName(u)])
  IN /\ Free(s)
     /\ req' = Enter(s, IF AdminGate(u) # "next" THEN Respond(r, AdminGate(u))
                        ELSE IF ReportById(id) = {} THEN Respond(r, "NotFound")
                        ELSE AdminRead(r, "OK", {id}))
  /\ UNCHANGED <<posts, comments, learningScore, votes, reports, nextVoteId, nextReportId>>
  /\ UNCHANGED <<governor, savedPosts>>

\* ------------------------------------------------- posts and saved posts
\* what a createPost or updatePost body can be: valid, refused by the
\* validation, or naming a topic without a row
Bodies == {"valid", "invalid", "noTopic"}
NextPostId == Cardinality(DOMAIN posts) + 1

\* createPost up to prisma.post.create: validatePostContent, topic.findUnique
CreatePostStart(s, u, body) ==
  /\ Free(s)
  /\ NextPostId <= MaxPostId
  /\ LET r == New(s, [IdleReq EXCEPT !.kind = "createPost", !.caller = u])
     IN req' = Enter(s, IF body = "invalid" THEN Respond(r, "InvalidInput")
                         ELSE IF body = "noTopic" THEN Respond(r, "NotFound")
                         ELSE [r EXCEPT !.pc = "postCreate"])
  /\ UNCHANGED <<posts, comments, learningScore, votes, reports, nextVoteId, nextReportId>>
  /\ UNCHANGED <<governor, savedPosts>>

\* prisma.post.create({ data: { title, content, authorId, primaryTopicId } })
CreatePostInsert(s) ==
  /\ req[s].kind = "createPost" /\ req[s].pc = "postCreate"
  /\ NextPostId <= MaxPostId
  /\ posts' = [p \in DOMAIN posts \cup {NextPostId} |->
                 IF p \in DOMAIN posts THEN posts[p]
                 ELSE [authorId |-> req[s].caller, deletedAt |-> FALSE, isHidden |-> FALSE,
                       rev |-> 0]]
  /\ req' = [req EXCEPT ![s] = Respond(req[s], "Created")]
  /\ UNCHANGED <<comments, learningScore, votes, reports, nextVoteId, nextReportId>>
  /\ UNCHANGED <<governor, savedPosts>>

\* updatePost up to prisma.post.update: post.findFirst({ id, deletedAt:
\* null }), isOwner, the validation of the fields, topic.findUnique
UpdatePostStart(s, u, p, body) ==
  /\ Free(s)
  /\ LET r == New(s, [IdleReq EXCEPT !.kind = "updatePost", !.caller = u, !.postId = p])
     IN req' = Enter(s,
                  IF p \notin DOMAIN posts \/ posts[p].deletedAt THEN Respond(r, "NotFound")
                  ELSE IF ~isOwner(u, posts[p].authorId) THEN Respond(r, "Forbidden")
                  ELSE IF body = "invalid" THEN Respond(r, "InvalidInput")
                  ELSE IF body = "noTopic" THEN Respond(r, "NotFound")
                  ELSE [r EXCEPT !.pc = "postUpdate"])
  /\ UNCHANGED <<posts, comments, learningScore, votes, reports, nextVoteId, nextReportId>>
  /\ UNCHANGED <<governor, savedPosts>>

\* prisma.post.update({ data: updateData }): title, content, primaryTopicId
\* (the text is one of two)
UpdatePostUpdate(s) ==
  /\ req[s].kind = "updatePost" /\ req[s].pc = "postUpdate"
  /\ ~ItemLockedByOther(s, req[s].postId, Null)
  /\ posts' = [posts EXCEPT ![req[s].postId].rev = 1 - @]
  /\ req' = [req EXCEPT ![s] = Respond(req[s], "Updated")]
  /\ UNCHANGED <<comments, learningScore, votes, reports, nextVoteId, nextReportId>>
  /\ UNCHANGED <<governor, savedPosts>>

\* savePost up to its savedPost.findUnique: post.findUnique, 404 without a
\* row, 400 for a deleted post
SavePostStart(s, u, p) ==
  /\ Free(s)
  /\ LET r == New(s, [IdleReq EXCEPT !.kind = "savePost", !.caller = u, !.postId = p])
     IN req' = Enter(s,
                  IF p = Null THEN Respond(r, "InvalidInput")
                  ELSE IF p \notin DOMAIN posts THEN Respond(r, "NotFound")
                  ELSE IF posts[p].deletedAt THEN Respond(r, "InvalidInput")
                  ELSE [r EXCEPT !.pc = "saveCheck"])
  /\ UNCHANGED <<posts, comments, learningScore, votes, reports, nextVoteId, nextReportId>>
  /\ UNCHANGED <<governor, savedPosts>>

\* savedPost.findUnique on (userId, postId)
SavePostCheck(s) ==
  /\ req[s].kind = "savePost" /\ req[s].pc = "saveCheck"
  /\ req' = [req EXCEPT ![s] =
               IF <<req[s].caller, req[s].postId>> \in savedPosts
               THEN Respond(req[s], "Conflict")
               ELSE [req[s] EXCEPT !.pc = "saveCreate"]]
  /\ UNCHANGED <<posts, comments, learningScore, votes, reports, nextVoteId, nextReportId>>
  /\ UNCHANGED <<governor, savedPosts>>

\* savedPost.create under the primary key (userId, postId)
SavePostCreate(s) ==
  /\ req[s].kind = "savePost" /\ req[s].pc = "saveCreate"
  /\ IF <<req[s].caller, req[s].postId>> \in savedPosts
     THEN /\ req' = [req EXCEPT ![s] = Respond(req[s], "InternalError")]
          /\ UNCHANGED savedPosts
     ELSE /\ savedPosts' = savedPosts \cup {<<req[s].caller, req[s].postId>>}
          /\ req' = [req EXCEPT ![s] = Respond(req[s], "Saved")]
  /\ UNCHANGED <<posts, comments, learningScore, votes, reports, nextVoteId, nextReportId>>
  /\ UNCHANGED governor

\* unsavePost: savedPost.deleteMany({ userId, postId }), 200 with either count
UnsavePost(s, u, p) ==
  /\ Free(s)
  /\ LET r == New(s, [IdleReq EXCEPT !.kind = "unsavePost", !.caller = u, !.postId = p])
     IN req' = Enter(s, IF p = Null THEN Respond(r, "InvalidInput")
                         ELSE Respond(r, IF <<u, p>> \in savedPosts THEN "Unsaved"
                                         ELSE "NotSaved"))
  /\ savedPosts' = IF p = Null THEN savedPosts ELSE savedPosts \ {<<u, p>>}
  /\ UNCHANGED <<posts, comments, learningScore, votes, reports, nextVoteId, nextReportId>>
  /\ UNCHANGED governor

\* ---------------------------------------------------------- rate limiters
\* (express-rate-limit with its memory store, one store per limiter)

\* the limiter on the route of each operation class; authLimiter, on
\* /verify-email, is an alias of loginLimiter
LimiterOf(class) ==
  CASE class = "login" -> "loginLimiter"
    [] class = "verifyEmail" -> "loginLimiter"
    [] class = "vote" -> "voteLimiter"
    [] class = "report" -> "reportLimiter"

\* the options of each limiter
skipFailedRequests(l) == l \in {"voteLimiter", "reportLimiter"}
HasUserKeyGenerator(l) == l \in {"voteLimiter", "reportLimiter"}
HasSkip(l) == l \in {"voteLimiter", "reportLimiter"}
\* the classes whose route runs requireAuth before the limiter
Authenticated(class) == class \in {"vote", "report"}

\* users.role: user 4 is the SYSTEM user, user 5 the BOT user
RoleOf(u) == IF u = 4 THEN "SYSTEM" ELSE IF u = 5 THEN "BOT" ELSE "USER"

\* req.user as requireAuth attaches it: its select names id, email,
\* username, learningScore, isAdmin, isVerified, createdAt and not role
AttachedUser(u) == [id |-> u, isAdmin |-> IsAdmin(u), role |-> "undefined"]

NoUser == [id |-> Null, isAdmin |-> FALSE, role |-> "undefined"]

\* skipSystemAndBotUsers(req)
skipSystemAndBotUsers(user) == user.id # Null /\ (user.role = "SYSTEM" \/ user.role = "BOT")

\* userKeyGenerator(req), and the default key (the address) of the limiters
\* without a keyGenerator
userKeyGenerator(user, ip) == IF user.id # Null THEN <<"user", user.id>> ELSE <<"ip", ip>>
KeyOf(l, user, ip) == IF HasUserKeyGenerator(l) THEN userKeyGenerator(user, ip) ELSE <<"ip", ip>>

WindowTicks == WindowSeconds * TicksPerSecond

\* store.increment(key): a client whose resetTime has passed starts a new
\* window
HitsAfterIncrement_NoReset(l, k) == totalHits[l][k] + 1
HitsAfterIncrement(l, k) == IF resetIn[l][k] = 0 THEN 1 ELSE totalHits[l][k] + 1
ResetAfterIncrement(l, k) == IF resetIn[l][k] = 0 THEN WindowTicks ELSE resetIn[l][k]

\* the handler's retryAfter: Math.ceil((resetTime - Date.now()) / 1000)
RetryAfter_Floor(ticks) == ticks \div TicksPerSecond
RetryAfter(ticks) == (ticks + TicksPerSecond - 1) \div TicksPerSecond

\* the limiter middleware up to next() or its 429 handler. The store is in
\* memory: no I/O separates the count from the handler, which reads the
\* clock at the instant of the count
Check(s, u, ip, class) ==
  LET l == LimiterOf(class)
      user == IF Authenticated(class) THEN AttachedUser(u) ELSE NoUser
      k == KeyOf(l, user, ip)
      g == [IdleGate EXCEPT !.class = class, !.key = k, !.user = user.id]
  IN /\ gate[s].pc \in {"idle", "done"}
     /\ IF HasSkip(l) /\ skipSystemAndBotUsers(user)
        THEN /\ gate' = [gate EXCEPT ![s] = [g EXCEPT !.pc = "running", !.current = TRUE]]
             /\ UNCHANGED <<totalHits, resetIn>>
        ELSE /\ HitsAfterIncrement(l, k) <= Cap + MaxOver
             /\ totalHits' = [totalHits EXCEPT ![l][k] = HitsAfterIncrement(l, k)]
             /\ resetIn' = [resetIn EXCEPT ![l][k] = ResetAfterIncrement(l, k)]
             /\ gate' = [gate EXCEPT ![s] =
                           IF HitsAfterIncrement(l, k) > Cap
                           THEN [g EXCEPT !.pc = "denied", !.counted = TRUE, !.status = 429,
                                          !.retryAfter = RetryAfter(ResetAfterIncrement(l, k))]
                           ELSE [g EXCEPT !.pc = "running", !.counted = TRUE,
                                          !.current = TRUE]]
     /\ UNCHANGED calls
     /\ UNCHANGED store

\* the status codes of the wrapped operations: a success, a refusal, a failure
Statuses == {201, 404, 500}
\* requestWasSuccessful (the default): response.statusCode < 400
requestWasSuccessful(status) == status < 400

\* store.decrement(key)
HitsAfterDecrement(l, k) == IF totalHits[l][k] > 0 THEN totalHits[l][k] - 1 ELSE 0

\* the response is sent ('finish'): the wrapped operation answered status,
\* or the 429 handler did
Finish(s, status) ==
  LET g == gate[s]
      l == LimiterOf(g.class)
  IN /\ g.pc \in {"running", "denied"}
     /\ g.pc = "denied" => status = 429
     /\ g.pc = "running" => status \in Statuses
     /\ totalHits' = IF g.counted /\ skipFailedRequests(l) /\ ~requestWasSuccessful(status)
                     THEN [totalHits EXCEPT ![l][g.key] = HitsAfterDecrement(l, g.key)]
                     ELSE totalHits
     /\ calls' = IF requestWasSuccessful(status) /\ g.current /\ resetIn[l][g.key] > 0
                 THEN [calls EXCEPT ![g.class][g.key] = @ + 1]
                 ELSE calls
     /\ gate' = [gate EXCEPT ![s] = [g EXCEPT !.pc = "done", !.status = status]]
     /\ UNCHANGED resetIn
     /\ UNCHANGED store

\* the clock advances by one tick; a window that ends takes its calls along,
\* and the requests admitted in it and still running are no longer of the
\* current window
Tick ==
  /\ \E l \in Limiters, k \in Keys : resetIn[l][k] > 0
  /\ resetIn' = [l \in Limiters |-> [k \in Keys |->
                   IF resetIn[l][k] > 0 THEN resetIn[l][k] - 1 ELSE 0]]
  /\ calls' = [c \in Classes |-> [k \in Keys |->
                 IF resetIn[LimiterOf(c)][k] = 1 THEN 0 ELSE calls[c][k]]]
  /\ gate' = [s \in Slots |->
                IF gate[s].pc = "running" /\ resetIn[LimiterOf(gate[s].class)][gate[s].key] = 1
                THEN [gate[s] EXCEPT !.current = FALSE]
                ELSE gate[s]]
  /\ UNCHANGED totalHits
  /\ UNCHANGED store

\* ---------------------------------------------------- the limited routes
\* router.post('/', requireAuth, voteLimiter, addVote) and the like: the
\* limiter is a middleware before the handler. It calls next() when it
\* admits the request; when it denies it, its handler answers 429 and the
\* chain ends there.

\* the request arrives at the limiter of its route
RouteCheck(s, u, class) ==
  /\ req[s].pc = "idle"
  /\ Check(s, u, 1, class)

\* a chain that goes on to the handler after the 429 as well
Passed_AlsoDenied(s, u, class) ==
  /\ gate[s].pc \in {"running", "denied"} /\ gate[s].class = class /\ gate[s].user = u
  /\ req[s].pc = "idle"

\* next(): the limiter admitted the request of u, the handler has not run
Passed(s, u, class) ==
  /\ gate[s].pc = "running" /\ gate[s].class = class /\ gate[s].user = u
  /\ req[s].pc = "idle"

RouteAdd(s, u, p, c) == Passed(s, u, "vote") /\ AddStart(s, u, p, c)
RouteRemove(s, u, id) == Passed(s, u, "vote") /\ RemoveStart(s, u, id)
RouteReport(s, u, p, c, reason) == Passed(s, u, "report") /\ ReportStart(s, u, p, c, reason)

\* the class of the status the handler answers with: a success, a failure,
\* a refusal
ResponseStatus(result) ==
  IF result \in {"Created", "Removed"} THEN 201
  ELSE IF result = "InternalError" THEN 500
  ELSE 404

\* the handler's answer is sent
RouteRespond(s) ==
  /\ gate[s].pc = "running" /\ req[s].pc = "done"
  /\ Finish(s, ResponseStatus(req[s].result))

\* the limiter's 429 is sent
RouteDeny(s) ==
  /\ gate[s].pc = "denied"
  /\ Finish(s, 429)

\* the request is over
Leave(s) ==
  /\ gate[s].pc = "done" /\ req[s].pc = "done"
  /\ req' = [req EXCEPT ![s] = IdleReq]
  /\ UNCHANGED <<posts, comments, learningScore, votes, reports, nextVoteId, nextReportId>>
  /\ UNCHANGED <<governor, savedPosts>>

\* the 429 has left
LeaveDenied(s) ==
  /\ gate[s].pc = "done" /\ gate[s].status = 429 /\ req[s].pc = "idle"
  /\ gate' = [gate EXCEPT ![s] = IdleGate]
  /\ UNCHANGED <<totalHits, resetIn, calls>>
  /\ UNCHANGED store

\* ---------------------------------------------------------------- failure
\* a lost connection when the writes are made outside a transaction: the
\* rows written so far stay
TxAbort_KeepsWrites(s) ==
  /\ InTx(req[s]) /\ Active(req[s])
  /\ votes' = (votes \ req[s].del) \cup req[s].ins
  /\ req' = [req EXCEPT ![s] = Respond([req[s] EXCEPT !.fault = TRUE], "InternalError")]
  /\ UNCHANGED <<posts, comments, learningScore, reports, nextVoteId, nextReportId>>
  /\ UNCHANGED <<governor, savedPosts>>

\* The connection is lost inside the transaction: PostgreSQL rolls the
\* transaction back, the handler's catch block answers 500.
TxAbort(s) ==
  /\ InTx(req[s]) /\ Active(req[s])
  /\ req' = [req EXCEPT ![s] = Respond([req[s] EXCEPT !.fault = TRUE], "InternalError")]
  /\ UNCHANGED <<posts, comments, learningScore, votes, reports, nextVoteId, nextReportId>>
  /\ UNCHANGED <<governor, savedPosts>>

\* ------------------------------------------------------- the vote ledger
AddSteps(s) ==
  \/ \E u \in 1..NumVoters, tg \in TargetInputs : AddStart(s, u, tg[1], tg[2])
  \/ AddCheck(s) \/ AddInsert(s) \/ AddUpdate(s) \/ AddCommit(s)

RemoveSteps(s) ==
  \/ \E u \in 1..NumVoters, id \in 1..MaxVoteId : RemoveStart(s, u, id)
  \/ RemoveDelete(s) \/ RemoveUpdate(s) \/ RemoveCommit(s)

DeletePostSteps(s) ==
  \/ \E u \in 1..NumVoters, p \in {1, 2} : DeletePostStart(s, u, p)
  \/ DeletePostUpdate(s)

\* concurrent adds and removes
NextLedger == \E s \in Slots : AddSteps(s) \/ RemoveSteps(s) \/ TxAbort(s)

SpecLedger == InitLedger /\ [][NextLedger]_vars

\* concurrent adds and soft deletes of the post
NextLedgerPosts == \E s \in Slots : AddSteps(s) \/ DeletePostSteps(s) \/ TxAbort(s)

SpecLedgerPosts == InitLedger /\ [][NextLedgerPosts]_vars

\* -------------------------------------------------- the report aggregator
ReportSteps(s) ==
  \/ \E u \in Callers, inp \in ReportInputs : ReportStart(s, u, inp[1], inp[2], inp[3])
  \/ ReportInsert(s) \/ ReportCount(s) \/ ReportHide(s) \/ ReportCommit(s)

\* the report ids an admin request can name: the handlers use the report
\* only to find its item, so the first stored report of each item stands
\* for the others, and the first id without a report for the missing ones
ReportIdInputs ==
  {id \in 1..MaxReportId :
     \/ \E x \in reports : x.id = id /\ \A y \in reports :
                                          SameTarget(y, x.postId, x.commentId) => y.id >= id
     \/ ReportById(id) = {} /\ \A j \in 1..(id - 1) : ReportById(j) # {}}

AdminSteps(s) ==
  \/ \E u \in AdminRouteCallers, id \in ReportIdInputs : UnhideStart(s, u, id)
  \/ UnhideUpdate(s)
  \/ \E u \in AdminRouteCallers, id \in ReportIdInputs : DismissStart(s, u, id)
  \/ DismissDelete(s) \/ DismissUpdate(s) \/ DismissCommit(s)

\* the admin routes called without a token, by a user and by the administrator
AnyCaller == {Null} \cup AdminRouteCallers
AdminRouteSteps(s) ==
  \/ \E u \in AnyCaller : ListReports(s, u)
  \/ \E u \in AnyCaller, id \in ReportIdInputs : GetReportDetails(s, u, id)
  \/ \E id \in ReportIdInputs : UnhideStart(s, Null, id) \/ DismissStart(s, Null, id)
  \/ AdminSteps(s)

\* moderation with one request at a time, from the seeded store
NextModeration == ReportSteps(1) \/ AdminSteps(1) \/ TxAbort(1)

SpecModeration == InitModeration /\ [][NextModeration]_vars

\* reports only, one request at a time, from the seeded store
NextReportSequence == ReportSteps(1) \/ TxAbort(1)

SpecReportSequence == InitModeration /\ [][NextReportSequence]_vars

\* concurrent reports, no unhide and no dismiss
NextReport == \E s \in Slots : ReportSteps(s) \/ TxAbort(s)

SpecReport == InitReported /\ [][NextReport]_vars

\* concurrent reports, unhides and dismissals
NextConcurrent == \E s \in Slots : ReportSteps(s) \/ AdminSteps(s) \/ TxAbort(s)

SpecConcurrent == InitReported /\ [][NextConcurrent]_vars

\* the admin routes and reports, one request at a time, over an item with
\* any number of earlier reports
NextAdmin == AdminRouteSteps(1) \/ ReportSteps(1) \/ TxAbort(1)

SpecAdmin == InitReported /\ [][NextAdmin]_vars

\* the same requests over an item that has no report yet
SpecReset == InitModeration /\ [][NextAdmin]_vars

\* ------------------------------------------------------------- progress
\* the statements after a handler's lookups: each runs once the rows it
\* writes are free
Continue(s) ==
  \/ AddCheck(s) \/ AddInsert(s) \/ AddUpdate(s) \/ AddCommit(s)
  \/ RemoveDelete(s) \/ RemoveUpdate(s) \/ RemoveCommit(s)
  \/ ReportInsert(s) \/ ReportCount(s) \/ ReportHide(s) \/ ReportCommit(s)
  \/ UnhideUpdate(s)
  \/ DismissDelete(s) \/ DismissUpdate(s) \/ DismissCommit(s)

\* the sequences still hold an id for each insert that is to come
VoteIdsLeft ==
  nextVoteId + Cardinality({t \in Slots : req[t].kind = "add" /\ req[t].pc \in {"check", "insert"}})
    <= MaxVoteId
ReportIdsLeft ==
  nextReportId + Cardinality({t \in Slots : req[t].kind = "report" /\ req[t].pc = "insert"})
    <= MaxReportId

\* the requests on post 1: votes of user NumVoters, reports of a user who
\* has not reported it yet, the administrator's unhide and dismiss
NewReporters == {REPORT_THRESHOLD + 1}
AdmitAdd(s) == VoteIdsLeft /\ AddStart(s, NumVoters, 1, Null)
AdmitRemove(s) == \E id \in 1..MaxVoteId : RemoveStart(s, NumVoters, id)
AdmitReport(s) == ReportIdsLeft /\ \E u \in NewReporters : ReportStart(s, u, 1, Null, "SPAM")
AdmitUnhide(s) == \E id \in ReportIdInputs : UnhideStart(s, 3, id)
AdmitDismiss(s) == \E id \in ReportIdInputs : DismissStart(s, 3, id)

NextProgress ==
  \E s \in Slots :
    \/ AdmitAdd(s) \/ AdmitRemove(s) \/ AdmitReport(s) \/ AdmitUnhide(s) \/ AdmitDismiss(s)
    \/ Continue(s)
    \/ TxAbort(s)

\* post 1 by user 1 with one report less than the threshold; the
\* statements of every request in flight get their turn
InitProgress == InitReported /\ 1 \in DOMAIN posts /\ Cardinality(reports) = REPORT_THRESHOLD - 1
SpecProgress ==
  InitProgress /\ [][NextProgress]_vars /\ \A s \in Slots : SF_vars(Continue(s))

\* ------------------------------------------------------ every writer
PostSteps(s) ==
  \/ \E body \in Bodies : CreatePostStart(s, 1, body)
  \/ CreatePostInsert(s)
  \/ \E u \in 1..NumVoters, p \in 1..MaxPostId, body \in Bodies : UpdatePostStart(s, u, p, body)
  \/ UpdatePostUpdate(s)
  \/ DeletePostSteps(s)

SaveSteps(s) ==
  \/ \E p \in 0..MaxPostId : SavePostStart(s, NumVoters, p)
  \/ SavePostCheck(s) \/ SavePostCreate(s)
  \/ \E p \in 0..MaxPostId : UnsavePost(s, NumVoters, p)

\* posts, saved posts, votes, reports and the administrator's actions, one
\* request at a time
NextWriters ==
  \/ PostSteps(1) \/ SaveSteps(1)
  \/ AddSteps(1) \/ RemoveSteps(1)
  \/ ReportSteps(1) \/ AdminSteps(1)
  \/ TxAbort(1)

\* no post yet; comment 1 by user 1, voted by user 2, reported by
\* REPORT_THRESHOLD users and hidden; one id is left in each sequence
InitWriters ==
  /\ posts = NoRows
  /\ comments = [SeedComment(1) EXCEPT ![1].isHidden = TRUE]
  /\ reports = EarlierReports(Null, 1, REPORT_THRESHOLD)
  /\ votes = {[id |-> MaxVoteId - 1, who |-> 2, postId |-> Null, commentId |-> 1]}
  /\ learningScore = [u \in UserIds |-> IF u = 1 THEN 1 ELSE 0]
  /\ nextVoteId = MaxVoteId
  /\ nextReportId = MaxReportId
  /\ req = [s \in Slots |-> IdleReq]
  /\ savedPosts = {}
  /\ InitGovernor

SpecWriters == InitWriters /\ [][NextWriters]_vars

\* ------------------------------------------------------------ the reads
ReadSteps(s) ==
  \/ \E viewer \in Viewers, a \in AuthorScopes : ListPosts(s, viewer, a)
  \/ \E viewer \in Viewers, id \in {1, 2} : GetPostById(s, viewer, id)
  \/ \E viewer \in Viewers, a \in AuthorScopes \ {Null} : GetPostsByAuthor(s, viewer, a)

VisibilitySteps(s) ==
  \/ \E viewer \in Viewers, i \in StoredItems : VisibleCheck(s, viewer, i)
  \/ \E viewer \in Viewers, a \in AuthorScopes : ListFiltered(s, viewer, a)

\* reads, reports and soft deletes, one request at a time, over an item with
\* any number of earlier reports
NextReads ==
  ReadSteps(1) \/ VisibilitySteps(1) \/ ReportSteps(1) \/ DeletePostSteps(1) \/ TxAbort(1)

SpecReads == InitReported /\ [][NextReads]_vars

\* ----------------------------------------------------- the rate limiters
GateStatuses == Statuses \cup {429}

\* logins from one address and votes of one user, one request at a time
NextGovernor ==
  \/ \E c \in {"login", "vote"} : Check(1, 1, 1, c)
  \/ \E status \in GateStatuses : Finish(1, status)
  \/ Tick

SpecGovernor == InitLedger /\ [][NextGovernor]_vars

\* votes of the SYSTEM user and reports of the BOT user
ServiceCalls == {<<u, c>> \in UserIds \X {"vote", "report"} :
                   (RoleOf(u) = "SYSTEM" /\ c = "vote") \/ (RoleOf(u) = "BOT" /\ c = "report")}
NextGovernorService ==
  \/ \E uc \in ServiceCalls : Check(1, uc[1], 1, uc[2])
  \/ \E status \in GateStatuses : Finish(1, status)
  \/ Tick

SpecGovernorService == InitLedger /\ [][NextGovernorService]_vars

\* logins and email verifications from one address, and votes of two users
\* at that address
NextGovernorShared ==
  \/ \E c \in {"login", "verifyEmail"} : Check(1, Null, 1, c)
  \/ \E u \in 1..NumVoters : Check(1, u, 1, "vote")
  \/ \E status \in GateStatuses : Finish(1, status)
  \/ Tick

SpecGovernorShared == InitLedger /\ [][NextGovernorShared]_vars

\* the vote and report routes behind their limiters, called by user 2, who
\* is no author, one request at a time
RouteSteps(s) ==
  \/ \E class \in {"vote", "report"} : RouteCheck(s, 2, class)
  \/ \E tg \in TargetInputs : RouteAdd(s, 2, tg[1], tg[2])
  \/ \E id \in 1..MaxVoteId : RouteRemove(s, 2, id)
  \/ \E inp \in ReportInputs : RouteReport(s, 2, inp[1], inp[2], inp[3])
  \/ RouteRespond(s) \/ RouteDeny(s) \/ Leave(s) \/ LeaveDenied(s)

NextRoutes ==
  \/ RouteSteps(1)
  \/ AddCheck(1) \/ AddInsert(1) \/ AddUpdate(1) \/ AddCommit(1)
  \/ RemoveDelete(1) \/ RemoveUpdate(1) \/ RemoveCommit(1)
  \/ ReportInsert(1) \/ ReportCount(1) \/ ReportHide(1) \/ ReportCommit(1)
  \/ TxAbort(1)
  \/ Tick

\* post 1 and comment 1 by user 1; the post carries REPORT_THRESHOLD - 1
\* reports, made by users 3 and up
InitRoutes ==
  /\ posts = SeedPost(1)
  /\ comments = SeedComment(1)
  /\ learningScore = [u \in UserIds |-> 0]
  /\ votes = {}
  /\ reports = {[id |-> MaxReportId - MaxNewReports - REPORT_THRESHOLD + 1 + i, who |-> i + 2,
                  postId |-> 1, commentId |-> Null, reason |-> "SPAM"] :
                   i \in 1..(REPORT_THRESHOLD - 1)}
  /\ nextVoteId = 1
  /\ nextReportId = MaxReportId - MaxNewReports + 1
  /\ req = [s \in Slots |-> IdleReq]
  /\ savedPosts = {}
  /\ InitGovernor

SpecRoutes == InitRoutes /\ [][NextRoutes]_vars

\* votes of one user, two requests in flight at a time
NextGovernorRaced ==
  \/ \E s \in Slots : Check(s, 1, 1, "vote")
  \/ \E s \in Slots, status \in GateStatuses : Finish(s, status)
  \/ Tick

SpecGovernorRaced == InitLedger /\ [][NextGovernorRaced]_vars

\* ================================================================ claims
Done(s, kind) == req[s].pc = "done" /\ req[s].kind = kind
\* slot s is answered by this step, having been in flight
Finishes(s) == Active(req[s]) /\ req'[s].pc = "done"
\* s and t ran the same insert against each other, neither lost its connection
RacedPair(s, t, kind) ==
  /\ s # t /\ Done(s, kind) /\ Done(t, kind)
  /\ t \in req[s].rivals /\ s \in req[t].rivals
  /\ ~req[s].fault /\ ~req[t].fault

\* ------------------------------------------------------------------- C1
\* C1: when two add(v, c) requests of the same voter on the same item run
\* concurrently, one is answered Created and the other Conflict; neither
\* is answered with a generic failure.
C1_RaceCreatedAndConflict ==
  \A s, t \in Slots :
    RacedPair(s, t, "add") => {req[s].result, req[t].result} = {"Created", "Conflict"}

\* ------------------------------------------------------------------- C2
VotesFor(u) == {v \in votes : VoteTargetAuthor(v) = u}

\* C2: in every reachable state, also after a request was cut inside its
\* transaction, each user's reputation is its initial value (0) plus the
\* number of stored votes on the items the user wrote.
C2_ReputationCountsVotes ==
  \A u \in UserIds : learningScore[u] = 0 + Cardinality(VotesFor(u))

\* a vote is stored and a transaction of an add was cut
C2_Witness ==
  /\ votes # {}
  /\ \E s \in Slots : Done(s, "add") /\ req[s].fault

\* ------------------------------------------------------------------- C5
C5_Step(s) ==
  LET r == req[s]
      a == TargetAuthor(r.postId, r.commentId)
  IN (Finishes(s) /\ r.solo /\ ~req'[s].fault) =>
       CASE r.kind = "add" ->
              IF ExistingVote(r) = {}
              THEN /\ req'[s].result = "Created"
                   /\ \E id \in 1..MaxVoteId :
                        votes' = votes \cup {[id |-> id, who |-> r.caller,
                                              postId |-> r.postId, commentId |-> r.commentId]}
                   /\ votes' # votes
                   /\ learningScore' = [learningScore EXCEPT ![a] = @ + 1]
              ELSE /\ req'[s].result = "Conflict"
                   /\ votes' = votes
                   /\ learningScore' = learningScore
         [] r.kind = "remove" ->
              /\ req'[s].result = "Removed"
              /\ VoteById(r.arg) # {}
              /\ votes' = votes \ VoteById(r.arg)
              /\ \A v \in VoteById(r.arg) :
                   learningScore' = [learningScore EXCEPT ![VoteTargetAuthor(v)] = @ - 1]
         [] OTHER -> TRUE

\* C5: with one request at a time, an add by a voter other than the author
\* on an item the voter has not voted on is answered Created, stores the
\* vote and raises the author's reputation by one; a second add of the same
\* vote is answered Conflict and changes neither the votes nor any
\* reputation; the remove of the vote by its voter is answered Removed,
\* deletes the row and lowers the author's reputation by one, back to its
\* value before the add.
C5_AddAddRemove == [][\A s \in Slots : C5_Step(s)]_vars

\* a vote was added and removed again, one request at a time: no vote is
\* left, every reputation is back at its first value
C5_Witness ==
  /\ \E s \in Slots : Done(s, "remove") /\ req[s].solo /\ req[s].result = "Removed"
  /\ votes = {}
  /\ \A u \in UserIds : learningScore[u] = 0

\* ------------------------------------------------------------------- C6
\* C6: at most one Vote row is stored for a voter and a post, and at most
\* one for a voter and a comment.
C6_OneVotePerVoterAndItem ==
  \A v, w \in votes :
    (v.who = w.who /\ v.postId = w.postId /\ v.commentId = w.commentId) => v = w

\* two adds of one voter on one item ran against each other, one was stored
C6_Witness ==
  \E s \in Slots :
    /\ Done(s, "add") /\ req[s].rivals # {} /\ req[s].result = "Created"
    /\ \E v \in votes : v.who = req[s].caller /\ SameTarget(v, req[s].postId, req[s].commentId)
\* ------------------------------------------------------------------ C10
\* the stored row of a vote's target
VoteTarget(v) == IF v.postId # Null THEN posts[v.postId] ELSE comments[v.commentId]

\* C10 as stated: an add by the author of an item on that item is answered
\* SelfInteraction, for every stored item in every reachable state.
C10_SelfAddAlwaysSelfInteraction ==
  \A s \in Slots : (Done(s, "add") /\ req[s].own # "") => req[s].result = "SelfInteraction"

\* C10, amended: in every reachable state an add by the author of a stored
\* item on that item is answered SelfInteraction when the item is a comment
\* or a post that is not soft-deleted, and NotFound when it is a
\* soft-deleted post; such an add never gets past that answer, so it stores
\* no vote and changes no reputation: no stored vote is by the author of its
\* target, and an author's reputation counts only the votes of others.
C10_SelfAddRefused ==
  /\ \A p \in DOMAIN posts :
       AddOutcome(posts[p].authorId, p, Null)
         = IF posts[p].deletedAt THEN "NotFound" ELSE "SelfInteraction"
  /\ \A c \in DOMAIN comments : AddOutcome(comments[c].authorId, Null, c) = "SelfInteraction"
  /\ \A s \in Slots :
       /\ (Done(s, "add") /\ req[s].own = "comment") => req[s].result = "SelfInteraction"
       /\ (Done(s, "add") /\ req[s].own = "post") => req[s].result \in {"SelfInteraction", "NotFound"}
       /\ (Done(s, "add") /\ req[s].own = "post" /\ \A p \in DOMAIN posts : ~posts[p].deletedAt)
             => req[s].result = "SelfInteraction"
       /\ (req[s].kind = "add" /\ req[s].own # "") => ~Active(req[s])
  /\ \A v \in votes : v.who # VoteTarget(v).authorId
  /\ \A u \in UserIds :
       learningScore[u] = Cardinality({v \in votes : VoteTarget(v).authorId = u /\ v.who # u})

\* an author's add on the author's own post was answered SelfInteraction
\* while votes of others are stored
C10_Witness ==
  /\ \E s \in Slots : Done(s, "add") /\ req[s].own = "post" /\ req[s].result = "SelfInteraction"
  /\ votes # {}

\* an author's add on the author's own soft-deleted post was answered NotFound
C10_WitnessDeleted ==
  /\ \E s \in Slots : Done(s, "add") /\ req[s].own = "post" /\ req[s].result = "NotFound"
  /\ \E p \in DOMAIN posts : posts[p].deletedAt
\* ----------------------------------------------------- moderation claims
\* the stored items, as (postId, commentId)
Items == {<<p, Null>> : p \in DOMAIN posts} \cup {<<Null, c>> : c \in DOMAIN comments}
ReportsOn(i) == {x \in reports : SameTarget(x, i[1], i[2])}
IsHidden(i) == IF i[1] # Null THEN posts[i[1]].isHidden ELSE comments[i[2]].isHidden
Quiet == \A s \in Slots : ~Active(req[s])

\* ------------------------------------------------------------------- C3
\* C3: once concurrent reports of distinct reporters on an item have all
\* committed, the item is suppressed if at least 5 reports are stored for it.
C3_ThresholdReachedSuppresses ==
  \A i \in Items : (Quiet /\ Cardinality(ReportsOn(i)) >= REPORT_THRESHOLD) => IsHidden(i)

\* ------------------------------------------------------------------- C4
C4_Step(s) ==
  LET r == req[s]
  IN (Finishes(s) /\ r.kind = "report" /\ ~req'[s].fault /\ ExistingReport(r) = {}) =>
       /\ req'[s].result = "Created"
       /\ \E id \in 1..MaxReportId :
            reports' = reports \cup {[id |-> id, who |-> r.caller, postId |-> r.postId,
                                      commentId |-> r.commentId, reason |-> r.reason]}
       /\ \A i \in {<<r.postId, r.commentId>>} :
            Cardinality(ReportsOn(i)') = Cardinality(ReportsOn(i)) + 1

\* C4: when distinct reporters report a never-reported item one request at a
\* time, every such report is answered Created and adds its row to the
\* stored reports, and after each of them the item is suppressed exactly
\* when at least 5 reports are stored: not after the first four, from the
\* fifth on, and still after the sixth, which raises the count to 6.
C4_FifthReportSuppresses ==
  /\ [](\A i \in Items : IsHidden(i) = (Cardinality(ReportsOn(i)) >= REPORT_THRESHOLD))
  /\ [][\A s \in Slots : C4_Step(s)]_vars

\* the sixth report was answered Created: 6 rows, the item suppressed
C4_Witness ==
  \E i \in Items :
    /\ Cardinality(ReportsOn(i)) = REPORT_THRESHOLD + 1
    /\ IsHidden(i)
    /\ \E s \in Slots : Done(s, "report") /\ req[s].result = "Created"

\* ------------------------------------------------------------------- C7
C7_Step(s) ==
  (/\ req[s].kind = "report" /\ req[s].pc = "insert" /\ req'[s].pc # "insert"
   /\ ExistingReport(req[s]) # {})
    => /\ req'[s].pc = "done" /\ req'[s].result = "Conflict"
       /\ reports' = reports /\ posts' = posts /\ comments' = comments

\* C7: a report by a reporter who has a stored report on the same target is
\* answered Conflict and changes neither the stored reports nor the
\* suppressed flag; no reporter has two stored reports on one target; and
\* when two identical reports race for a key no stored report holds, one is
\* answered Created, the other Conflict, and exactly one row is stored.
C7_DuplicateReportConflicts ==
  /\ [](/\ \A x, y \in reports :
             (x.who = y.who /\ x.postId = y.postId /\ x.commentId = y.commentId) => x = y
        /\ \A s, t \in Slots :
             RacedPair(s, t, "report") =>
               /\ {req[s].result, req[t].result} = {"Created", "Conflict"}
               /\ Cardinality(ExistingReport(req[s])) = 1)
  /\ [][\A s \in Slots : C7_Step(s)]_vars

\* two identical reports raced: one Created, one Conflict, one row
C7_Witness ==
  \E s, t \in Slots :
    /\ RacedPair(s, t, "report")
    /\ req[s].result = "Created" /\ req[t].result = "Conflict"
    /\ Cardinality(ExistingReport(req[s])) = 1

\* ------------------------------------------------------------------- C8
C8_Step(s) ==
  (req[s].kind = "dismiss" /\ Finishes(s) /\ ~req'[s].fault) =>
    /\ req'[s].result = "Dismissed"
    /\ \A x \in ReportById(req[s].arg) :
         /\ ReportsOn(<<x.postId, x.commentId>>)' = {}
         /\ ~IsHidden(<<x.postId, x.commentId>>)'
    /\ ReportById(req[s].arg) # {}

\* a step that deletes reports of an item deletes them all and leaves the
\* item not suppressed
C8_Atomic ==
  (reports' # reports /\ reports' \subseteq reports) =>
    \A i \in Items :
      ReportsOn(i)' # ReportsOn(i) => (ReportsOn(i)' = {} /\ ~IsHidden(i)')

\* C8: with one request at a time, a dismiss by an administrator of a report
\* on an item with n >= 1 stored reports is answered Dismissed and leaves
\* the item with no stored report and not suppressed; the rows are deleted
\* and the flag cleared in one step: no step deletes reports of an item and
\* leaves reports behind or leaves the item suppressed.
C8_DismissClearsAtomically == [][C8_Atomic /\ \A s \in Slots : C8_Step(s)]_vars

\* a dismiss deleted the reports of an item that had reached the threshold
C8_Witness ==
  /\ \E s \in Slots : Done(s, "dismiss") /\ req[s].result = "Dismissed" /\ req[s].n >= REPORT_THRESHOLD
  /\ reports = {}
  /\ \A i \in Items : ~IsHidden(i)

\* ------------------------------------------------------------------- C9
C9_Step(s) ==
  /\ (Finishes(s) /\ req[s].kind = "unhide") =>
       /\ req'[s].result = "Unhidden"
       /\ ReportById(req[s].arg) # {}
       /\ \A x \in ReportById(req[s].arg) : ~IsHidden(<<x.postId, x.commentId>>)'
  /\ (req'[s].kind = "unhide" /\ req'[s] # req[s]) => reports' = reports

\* C9: an unhide by an administrator of a report's item is answered
\* Unhidden and leaves the item not suppressed; no step of an unhide changes
\* the stored reports.
C9_UnhideKeepsReports == [][\A s \in Slots : C9_Step(s)]_vars

\* an item with 5 or more stored reports was unhidden: the reports are still
\* stored
C9_Witness ==
  /\ \E s \in Slots : Done(s, "unhide") /\ req[s].result = "Unhidden"
  /\ \E i \in Items : Cardinality(ReportsOn(i)) >= REPORT_THRESHOLD /\ ~IsHidden(i)
\* ------------------------------------------------------------------ C11
\* the posts a finished read of slot s was asked for
ReadRange(s) ==
  {p \in DOMAIN posts :
     \/ req[s].kind = "listPosts" /\ (req[s].arg = Null \/ req[s].arg = posts[p].authorId)
     \/ req[s].kind = "getPostsByAuthor" /\ req[s].arg = posts[p].authorId
     \/ req[s].kind = "getPostById" /\ req[s].postId = p}

\* C11: in the result of the post list and post detail reads, a suppressed
\* post that is not deleted is absent for an anonymous caller and present
\* for its author and for an administrator; a deleted post is absent for
\* every caller.
C11_ReadsHideSuppressedAndDeleted ==
  \A s \in Slots :
    req[s].pc = "done" =>
      \A p \in ReadRange(s) :
        /\ posts[p].deletedAt => p \notin req[s].seen
        /\ (~posts[p].deletedAt /\ posts[p].isHidden) =>
             /\ req[s].caller = Null => p \notin req[s].seen
             /\ req[s].caller = posts[p].authorId => p \in req[s].seen
             /\ IsAdmin(req[s].caller) => p \in req[s].seen

\* ------------------------------------------------------------------ C12
\* the decision as the claim words it
C12_Decision(viewer, i) ==
  IF ItemDeleted(i) THEN FALSE
  ELSE IF viewer # Null /\ IsAdmin(viewer) THEN TRUE
  ELSE IF viewer # Null /\ viewer = ItemAuthor(i) THEN TRUE
  ELSE ~ItemHidden(i)

C13_Listed(viewer, authorScope) ==
  {i \in StoredItems :
     /\ ~ItemDeleted(i)
     /\ authorScope = Null \/ ItemAuthor(i) = authorScope
     /\ \/ ~ItemHidden(i)
        \/ viewer # Null /\ IsAdmin(viewer)
        \/ viewer # Null /\ authorScope = viewer}

\* the list agrees with the visibility decision on the items in its scope,
\* but for the own suppressed items of a viewer who is no administrator in
\* a list not scoped to the viewer
C13_AgreesWithDecision(viewer, authorScope, rows) ==
  \A i \in StoredItems :
    (authorScope = Null \/ ItemAuthor(i) = authorScope) =>
      /\ i \in rows => visible(viewer, i)
      /\ (visible(viewer, i) /\ i \notin rows) =>
           /\ ItemHidden(i) /\ viewer = ItemAuthor(i) /\ ~IsAdmin(viewer)
           /\ authorScope # viewer
      /\ (ItemHidden(i) /\ ~ItemDeleted(i) /\ viewer = ItemAuthor(i) /\ ~IsAdmin(viewer)
          /\ authorScope # viewer) => i \notin rows

Checks(s) == gate[s].pc \in {"idle", "done"} /\ gate'[s].pc \in {"running", "denied"}
Admitted(s) == Checks(s) /\ gate'[s].pc = "running"
Denied(s) == Checks(s) /\ gate'[s].pc = "denied"
\* the calls of the class and key of the request slot s takes in that
\* succeeded in the window
CallsBefore(s) == calls[gate'[s].class][gate'[s].key]
WindowBefore(s) == resetIn[LimiterOf(gate'[s].class)][gate'[s].key]

\* C14: a failed request consumes no budget, in any class: whatever
\* requests of an identity failed in the window, a request of the identity
\* is admitted as long as fewer than Cap of its requests of that class
\* succeeded in the window
C14_FailuresConsumeNoBudget ==
  [][\A s \in Slots : Checks(s) /\ CallsBefore(s) < Cap => Admitted(s)]_vars

\* C15: when Cap calls of a class by an identity succeeded in the window,
\* its next call in the window is denied with 429 and a retryAfter above 0;
\* a call that comes when the window has elapsed starts the count again and
\* is admitted
C15_Step(s) ==
  /\ Checks(s) /\ CallsBefore(s) = Cap =>
       /\ WindowBefore(s) > 0
       /\ Denied(s) /\ gate'[s].status = 429 /\ gate'[s].retryAfter > 0
  /\ Checks(s) /\ WindowBefore(s) = 0 =>
       /\ Admitted(s)
       /\ totalHits'[LimiterOf(gate'[s].class)][gate'[s].key] = 1
       /\ resetIn'[LimiterOf(gate'[s].class)][gate'[s].key] = WindowTicks
C15_DeniedAboveCapUntilReset == [][\A s \in Slots : C15_Step(s)]_vars
\* the call after Cap successful votes in the window was denied
C15_Witness ==
  /\ gate[1].pc = "done" /\ gate[1].status = 429 /\ gate[1].class = "vote"
  /\ calls["vote"][gate[1].key] = Cap /\ resetIn["voteLimiter"][gate[1].key] > 0

\* C18: the retryAfter of a denial is the number of seconds, rounded up to
\* a whole one, until the window of the key resets: above 0 and at most the
\* window's length
C18_Step(s) ==
  Denied(s) =>
    \A left \in {resetIn'[LimiterOf(gate'[s].class)][gate'[s].key]} :
      /\ gate'[s].retryAfter \in 1..WindowSeconds
      /\ (gate'[s].retryAfter - 1) * TicksPerSecond < left
      /\ left <= gate'[s].retryAfter * TicksPerSecond
C16_ServiceUsersExempt ==
  [][\A s \in Slots :
       Checks(s) /\ RoleOf(gate'[s].user) \in {"SYSTEM", "BOT"} =>
         Admitted(s) /\ totalHits' = totalHits]_vars

\* the callers of a class: the users on the routes behind requireAuth, no
\* user on the others
ClassCallers(c) == IF Authenticated(c) THEN 1..NumVoters ELSE {Null}
ClassKey(c, u) ==
  KeyOf(LimiterOf(c), IF Authenticated(c) THEN AttachedUser(u) ELSE NoUser, 1)
\* the limiter would admit a request of class c by u that came now
WouldAdmit(c, u) == HitsAfterIncrement(LimiterOf(c), ClassKey(c, u)) <= Cap

\* C17: budgets are apart for each key and class: a request of another
\* identity or of another class, taken in or answered by this step, leaves
\* the outcome that a request of class c by u would get as it was
C17_BudgetsIsolated ==
  [][\A s \in Slots :
       gate'[s] # gate[s] =>
         \A c \in Classes, u \in UserIds \cup {Null} :
           /\ u \in ClassCallers(c)
           /\ <<c, ClassKey(c, u)>> # <<gate'[s].class, gate'[s].key>>
           => (WouldAdmit(c, u)' <=> WouldAdmit(c, u))]_vars

\* -------------------------------------------------------- the admin routes
AdminKinds == {"listReports", "getReportDetails", "unhide", "dismiss"}
\* some item's isHidden goes from TRUE to FALSE in this step
Unhides ==
  \/ \E p \in DOMAIN posts : posts[p].isHidden /\ ~posts'[p].isHidden
  \/ \E c \in DOMAIN comments : comments[c].isHidden /\ ~comments'[c].isHidden

\* C19: the admin routes act for the administrator only: a listReports,
\* getReportDetails, unhide or dismiss request of a caller without a token
\* or of a user who is no administrator is answered Unauthorized or
\* Forbidden at once, returns no row and leaves the report rows and every
\* isHidden as they were; no request of such a caller is ever in flight, and
\* report rows are deleted and items unhidden only by steps of the
\* administrator's requests
C19_Step(s) ==
  /\ req'[s] # req[s] /\ req'[s].kind \in AdminKinds /\ req'[s].role # "admin" =>
       /\ req'[s].pc = "done"
       /\ req'[s].result = (IF req'[s].role = "anonymous" THEN "Unauthorized" ELSE "Forbidden")
       /\ req'[s].seen = {}
       /\ UNCHANGED <<reports, posts, comments>>
  /\ Active(req[s]) /\ req[s].kind \in AdminKinds => req[s].role = "admin"
C19_AdminOnly ==
  [][/\ \A s \in Slots : C19_Step(s)
     /\ (Unhides \/ ~(reports \subseteq reports')) =>
          \E s \in Slots : req[s].kind \in {"unhide", "dismiss"} /\ req[s].role = "admin"]_vars
\* a user who is no administrator asked to dismiss the reports of a hidden
\* item and was refused
C19_Witness ==
  /\ Done(1, "dismiss") /\ req[1].role = "user" /\ req[1].result = "Forbidden"
  /\ \E i \in Items : IsHidden(i) /\ ReportsOn(i) # {}

\* ------------------------------------------------------- refused removals
\* C20: a removeVote request that names a vote id without a row is answered
\* NotFound, one that names a row of another voter is answered Forbidden,
\* and no other is answered so before its transaction; the step that gives
\* either answer deletes no vote row and changes no learningScore
C20_Step(s) ==
  req'[s] # req[s] /\ req'[s].kind = "remove" /\ ~Active(req[s]) =>
    \A u \in {req'[s].caller}, id \in {req'[s].arg} :
      /\ VoteById(id) = {} => req'[s].pc = "done" /\ req'[s].result = "NotFound"
      /\ (\E v \in VoteById(id) : v.who # u) =>
           req'[s].pc = "done" /\ req'[s].result = "Forbidden"
      /\ (\E v \in VoteById(id) : v.who = u) => req'[s].pc = "delete"
      /\ req'[s].pc = "done" => UNCHANGED <<votes, learningScore>>
C20_RemoveRefusals == [][\A s \in Slots : C20_Step(s)]_vars
\* a voter asked to remove the stored vote of another voter, and was refused
C20_Witness ==
  \E s \in Slots :
    /\ Done(s, "remove") /\ req[s].result = "Forbidden"
    /\ \E v \in VoteById(req[s].arg) : v.who # req[s].caller

\* ------------------------------------------------ votes on deleted posts
\* C21: no vote is stored on a deleted post: an add that names a post
\* without a row or a soft-deleted post is answered NotFound, and in every
\* interleaving of an add with a soft delete of its post, no step stores a
\* vote row on a post whose deletion is committed, nor credits its author
C21_NoVoteAfterDelete ==
  /\ [](\A p \in 1..2, u \in UserIds :
          (p \notin DOMAIN posts \/ posts[p].deletedAt) => AddOutcome(u, p, Null) = "NotFound")
  /\ [][/\ \A s \in Slots : \A v \in req'[s].ins \ req[s].ins :
             req'[s].kind = "add" /\ v.postId # Null => ~posts[v.postId].deletedAt
        /\ \A v \in votes' \ votes : v.postId # Null => ~posts[v.postId].deletedAt]_vars

\* ------------------------------------------------------------ the writers
PostKinds == {"createPost", "updatePost", "deletePost", "savePost", "unsavePost"}
LedgerKinds == {"add", "remove"}
AggregatorKinds == {"report", "unhide", "dismiss"}
HiddenItems == {i \in Items : IsHidden(i)}
\* this step is a step of a request of one of these kinds
StepOf(kinds) == \E s \in Slots : req'[s] # req[s] /\ req'[s].kind \in kinds

\* C22: the vote rows and learningScore are written by addVote and
\* removeVote only, the report rows and isHidden by reportContent,
\* unhideContent and dismissReports only: every step of createPost,
\* updatePost, deletePost, savePost and unsavePost leaves the votes, the
\* reports, every learningScore and every isHidden as they were, every step
\* of addVote and removeVote leaves the reports and every isHidden, every
\* step of the three others leaves the votes and every learningScore
C22_WritersKeepApart ==
  [][/\ StepOf(PostKinds) => UNCHANGED <<votes, reports, learningScore>> /\ HiddenItems' = HiddenItems
     /\ StepOf(LedgerKinds) => UNCHANGED reports /\ HiddenItems' = HiddenItems
     /\ StepOf(AggregatorKinds) => UNCHANGED <<votes, learningScore>>
     /\ ~UNCHANGED <<votes, learningScore>> => StepOf(LedgerKinds)
     /\ (reports' # reports \/ HiddenItems' # HiddenItems) => StepOf(AggregatorKinds)]_vars
\* a post that holds a vote was soft-deleted, while a hidden comment holds
\* its reports: the vote is still stored
C22_Witness ==
  /\ Done(1, "deletePost") /\ req[1].result = "Deleted"
  /\ \E v \in votes : v.postId # Null /\ posts[v.postId].deletedAt
  /\ \E i \in HiddenItems : ReportsOn(i) # {}

\* -------------------------------------------------------------- progress
\* C23: every addVote, removeVote, reportContent, unhideContent and
\* dismissReports request in flight is answered in the end: no transactions
\* wait on each other for ever
C23_EveryRequestAnswered == \A s \in Slots : Active(req[s]) ~> ~Active(req[s])
\* a report's transaction is about to hide the post and waits for its
\* row, which the transaction of a dismissal has written
C23_Witness ==
  \E s \in Slots :
    /\ req[s].kind = "report" /\ req[s].pc = "hide"
    /\ \E t \in Slots \ {s} : req[t].kind = "dismiss" /\ req[t].flag # "none"
    /\ ItemLockedByOther(s, req[s].postId, req[s].commentId)

\* ---------------------------------------------------- hidden and reported
\* C24: in every reachable state, whatever the interleaving of reports,
\* unhides and dismissals, an item whose isHidden is set has at least
\* REPORT_THRESHOLD stored reports
C24_HiddenImpliesThreshold ==
  \A i \in Items : IsHidden(i) => Cardinality(ReportsOn(i)) >= REPORT_THRESHOLD

\* ---------------------------------------------------------- removes raced
C25_Step(s) ==
  (req[s].kind = "remove" /\ Finishes(s)) =>
    IF req'[s].result = "Removed"
    THEN /\ VoteById(req[s].arg) # {}
         /\ votes' = votes \ VoteById(req[s].arg)
         /\ learningScore' = [learningScore EXCEPT ![req[s].author] = @ - 1]
    ELSE votes' = votes /\ learningScore' = learningScore

\* C25: when removes of one vote by its voter run against each other, the
\* row is deleted once and the author's reputation falls by one, not two:
\* a remove is answered Removed only by the step that deletes the row still
\* stored and takes one from the reputation, every other answer of a remove
\* changes neither, no two transactions hold the deletion of one row, and
\* no step takes more than one from a reputation.
C25_RemovedOnce ==
  /\ [](\A s, t \in Slots : s # t => req[s].del \cap req[t].del = {})
  /\ [][/\ \A s \in Slots : C25_Step(s)
        /\ \A a \in UserIds : learningScore'[a] >= learningScore[a] - 1]_vars

\* two removes of one vote both read it before either deleted it: one was
\* answered Removed, the other failed on the missing row, the vote is gone
\* and the reputation stands at what the remaining votes give
C25_Witness ==
  \E s, t \in Slots :
    /\ Done(s, "remove") /\ req[s].result = "Removed"
    /\ Done(t, "remove") /\ req[t].result = "InternalError" /\ ~req[t].fault
    /\ \A a \in UserIds :
         learningScore[a] = Cardinality({v \in votes : VoteTargetAuthor(v) = a})

\* ------------------------------------------------------ the cap when raced
\* C26: for every class and identity, the requests admitted in one window
\* that succeeded in it are never more than Cap, whatever the interleaving
\* of the requests in flight
C26_SuccessesWithinCap ==
  \A c \in Classes, k \in Keys : calls[c][k] <= Cap

\* --------------------------------------------------- unhide is not a reset
\* slot s answers Created to a report of item i at this step
ReportCreatedOn(s, i) ==
  /\ req[s].kind = "report" /\ Finishes(s) /\ req'[s].result = "Created"
  /\ req[s].postId = i[1] /\ req[s].commentId = i[2]

\* item i was unhidden and kept its reports
Unhidden(i) == Cardinality(ReportsOn(i)) >= REPORT_THRESHOLD /\ ~IsHidden(i)

C27_Step(i) ==
  /\ \A s \in Slots :
       (req[s].kind = "unhide" /\ Finishes(s) /\ req'[s].result = "Unhidden"
          /\ req[s].postId = i[1] /\ req[s].commentId = i[2]) =>
         (reports' = reports /\ ~IsHidden(i)')
  /\ (Unhidden(i) /\ IsHidden(i)') => \E s \in Slots : ReportCreatedOn(s, i)
  /\ (Unhidden(i) /\ \E s \in Slots : ReportCreatedOn(s, i) /\ req[s].solo) => IsHidden(i)'

\* C27: an unhide does not reset the threshold. The unhide of an item
\* leaves its reports stored; an item with REPORT_THRESHOLD or more stored
\* reports that was unhidden stays so until the next report of it is
\* stored, and that report, whoever makes it, sets isHidden again.
C27_UnhideKeepsThreshold == [][\A i \in Items : C27_Step(i)]_vars

\* an unhidden item with its reports still stored is reported again: the
\* report has counted and written isHidden, its commit is next
C27_Witness ==
  \E i \in Items, s \in Slots :
    /\ Unhidden(i)
    /\ req[s].kind = "report" /\ req[s].pc = "commit" /\ req[s].flag = "hide"
    /\ req[s].postId = i[1] /\ req[s].commentId = i[2]

\* ------------------------------------------------ precedence of refusals
\* the lookup of the item (p, c) finds no row, or a deleted post
Gone(p, c) ==
  IF p # Null THEN p \notin DOMAIN posts \/ posts[p].deletedAt ELSE c \notin DOMAIN comments

\* the item (p, c) is stored and u wrote it
Wrote(u, p, c) ==
  IF p # Null THEN p \in DOMAIN posts /\ posts[p].authorId = u
  ELSE c \in DOMAIN comments /\ comments[c].authorId = u

\* the reasons a report can carry
ReasonInputs == {inp[3] : inp \in ReportInputs}

C28_Add(u, p, c) ==
  AddOutcome(u, p, c) =
    IF InvalidTarget(p, c) THEN "InvalidTarget"
    ELSE IF Gone(p, c) THEN "NotFound"
    ELSE IF Wrote(u, p, c) THEN "SelfInteraction"
    ELSE "proceed"

C28_Report(u, p, c, reason) ==
  ReportOutcome(u, p, c, reason) =
    IF InvalidTarget(p, c) THEN "InvalidTarget"
    ELSE IF reason \notin ValidReasons THEN "InvalidReason"
    ELSE IF Gone(p, c) THEN "NotFound"
    ELSE IF Wrote(u, p, c) THEN "SelfInteraction"
    ELSE "proceed"

\* slot s answers Conflict at this step to a request of that kind that ran alone
AnswersConflict(s, kind) ==
  req[s].kind = kind /\ Finishes(s) /\ req[s].solo /\ req'[s].result = "Conflict"

\* C28: the refusals have a fixed precedence. For every caller and input
\* and in every reachable store, an add is answered InvalidTarget before
\* NotFound before SelfInteraction, a report InvalidTarget before
\* InvalidReason before NotFound before SelfInteraction (a report with an
\* invalid reason is answered InvalidReason whether or not its target is
\* stored or the caller's own, the author's add on their own deleted post
\* NotFound), and Conflict is answered only to a request none of these
\* conditions holds for.
C28_Precedence ==
  /\ [](\A u \in UserIds, tg \in TargetInputs :
          /\ C28_Add(u, tg[1], tg[2])
          /\ \A reason \in ReasonInputs : C28_Report(u, tg[1], tg[2], reason))
  /\ [][\A s \in Slots :
          (AnswersConflict(s, "add") \/ AnswersConflict(s, "report")) =>
            /\ ~InvalidTarget(req[s].postId, req[s].commentId)
            /\ ~Gone(req[s].postId, req[s].commentId)
            /\ ~Wrote(req[s].caller, req[s].postId, req[s].commentId)
            /\ req[s].kind = "report" => req[s].reason \in ValidReasons]_vars

\* a report of the caller's own item with a reason that is not valid was
\* answered InvalidReason
C28_Witness ==
  \E s \in Slots : Done(s, "report") /\ req[s].result = "InvalidReason" /\ req[s].own # ""

\* ---------------------------------------------------- denied at the gate
\* C29: a request the limiter denies never reaches the handler behind it.
\* While a request stands denied its handler has not started, and from the
\* step that denies it to the step that sends its 429 no Vote row, no
\* Report row, no learningScore and no isHidden changes.
C29_DeniedReachesNothing ==
  /\ [](\A s \in Slots : gate[s].pc = "denied" => req[s].pc = "idle")
  /\ [][\A s \in Slots :
          (gate[s].pc = "denied" \/ gate'[s].pc = "denied") =>
            /\ UNCHANGED <<votes, reports, learningScore, posts, comments>>
            /\ req'[s].pc = "idle"]_vars

\* a request of a user who has used up the votes of the window was denied
\* and answered 429; votes of the window are stored
C29_Witness ==
  \E s \in Slots :
    /\ gate[s].pc = "done" /\ gate[s].status = 429 /\ gate[s].class = "vote"
    /\ calls["vote"][gate[s].key] = Cap
    /\ req[s].pc = "idle"

\* ------------------------------------------------- dismiss is a full reset
\* slot s answers Dismissed at this step to a dismissal of item i
DismissedOn(s, i) ==
  /\ req[s].kind = "dismiss" /\ Finishes(s) /\ req'[s].result = "Dismissed"
  /\ req[s].postId = i[1] /\ req[s].commentId = i[2]

\* an administrator's request that names report id, before its lookup
AdminRequest(a, id) == [IdleReq EXCEPT !.caller = a, !.arg = id]

C30_Step(i) ==
  /\ (\E s \in Slots : DismissedOn(s, i)) =>
       /\ ReportsOn(i)' = {} /\ ~IsHidden(i)'
       /\ \A x \in ReportsOn(i) :
            /\ ReportById(x.id)' = {}
            /\ \A a \in {u \in UserIds : IsAdmin(u)} :
                 AdminLookup(AdminRequest(a, x.id), x.id, "next")'.result = "NotFound"
            /\ ExistingReport([caller |-> x.who, postId |-> i[1], commentId |-> i[2]])' = {}
            /\ ReportOutcome(x.who, i[1], i[2], x.reason)' = "proceed"
  /\ (~IsHidden(i) /\ IsHidden(i)') => Cardinality(ReportsOn(i)') >= REPORT_THRESHOLD

C30_Answers(s) ==
  /\ (req'[s].kind \in {"unhide", "dismiss"} /\ req'[s] # req[s] /\ Active(req'[s])) =>
       ReportById(req'[s].arg) # {}
  /\ (req'[s].kind = "getReportDetails" /\ req'[s] # req[s] /\ req'[s].result = "OK") =>
       req'[s].seen \subseteq {x.id : x \in reports}
  /\ AnswersConflict(s, "report") => ExistingReport(req[s]) # {}

\* C30: a dismissal is a full reset of the item's reports. The step that
\* answers Dismissed leaves no report of the item and the item not hidden;
\* every id that belonged to the item is NotFound for the admin routes from
\* then on (a new report takes the next id of the sequence, above every id
\* stored before, and getReportDetails, unhide and dismiss go on only with
\* a stored id); every reporter of the
\* item can report it again (no row of theirs is left, and Conflict is
\* answered only when one is); and isHidden is set again only by a step
\* that leaves REPORT_THRESHOLD or more reports, all of them new, stored.
C30_DismissResets ==
  /\ [](/\ \A id \in 1..MaxReportId, a \in {u \in UserIds : IsAdmin(u)} :
            ReportById(id) = {} => AdminLookup(AdminRequest(a, id), id, "next").result = "NotFound"
        /\ \A x \in reports : x.id < nextReportId
        /\ \A s \in Slots : req[s].kind = "report" => \A x \in req[s].ins : x.id < nextReportId)
  /\ [][/\ \A i \in Items : C30_Step(i)
        /\ \A s \in Slots : C30_Answers(s)
        /\ nextReportId' >= nextReportId
        /\ \A s \in Slots : \A x \in req'[s].ins \ req[s].ins :
             req'[s].kind = "report" => x.id >= nextReportId
        /\ \A x \in reports' \ reports : \E s \in Slots : x \in req[s].ins]_vars

\* an item with reports below the threshold was dismissed: no report of it
\* is left, and ids enough for REPORT_THRESHOLD new reports are
C30_Witness ==
  /\ \E s \in Slots : /\ Done(s, "dismiss") /\ req[s].result = "Dismissed"
                      /\ req[s].n >= 1 /\ req[s].n < REPORT_THRESHOLD
  /\ reports = {}
  /\ nextReportId + REPORT_THRESHOLD <= MaxReportId + 1

====
